---------------------------- MODULE Spec2Model ----------------------------
(***************************************************************************)
(* Model of assignment-1/producer_consumer.py: SharedBuffer (a bounded     *)
(* FIFO guarded by one Lock and two Condition variables), the Producer and *)
(* Consumer threads that use it, and the harness of main() that builds the *)
(* buffer, starts the threads and joins them.                              *)
(* Beside them: callers of SharedBuffer.size, the queue.Queue-backed       *)
(* ProducerConsumerQueue with demo_queue_implementation(), and the queries *)
(* of assignment-2/sales_analyzer.py (SalesAnalyzer) as operators applied  *)
(* to a loaded list of records.                                            *)
(*                                                                         *)
(* Every statement that touches shared state is one action.  A thread's    *)
(* position is pc[t]; the lock is the id of its holder; each Condition is  *)
(* the deque of its waiters, oldest first, as in threading.Condition.      *)
(***************************************************************************)
EXTENDS Integers, Sequences, FiniteSets

\* ------------------------------------------------------------------ bounds

\* Largest capacity handed to SharedBuffer(capacity).
MaxCap == 2

\* Longest source list of the single producer of the one-producer harness.
MaxLen == 3

\* Item values the one-producer harness draws its source from (1..NumItems).
NumItems == 2

\* When two producers and two consumers share the buffer: the most items the
\* two sources hold together.
MaxItemsMulti == 3

\* When two producers and two consumers share the buffer: the most the two
\* item counts add up to.
MaxTakesMulti == 2

\* The most records a SalesAnalyzer holds.
MaxRecords == 2

\* When the puts and the takes of two producers and two consumers balance:
\* the most items the two sources hold together.
MaxBalanced == 2

\* The most size() calls a monitoring thread makes.
MaxSizeCalls == 2

\* ------------------------------------------------------------- identifiers

ProducerIds == {"P1", "P2"}
ConsumerIds == {"C1", "C2"}
\* Threads that only call size() on the buffer.
MonitorIds == {"M1"}

\* The two threads of demo_queue_implementation().
QueueThreadIds == {"QP", "QC"}
ThreadIds == ProducerIds \cup ConsumerIds \cup MonitorIds

\* The lock's value when nobody holds it.
NoThread == "none"

\* The consumer's local variable item before its first take has popped
\* anything (items are positive numbers).
NoItem == 0

\* The value of a history stamp when the call in progress has not waited.
NoStamp == 0 - 1

\* The value of size_result before any size() call has returned.
NoSize == 0 - 1

VARIABLES
    main_pc,      \* position of the harness: construct, start, join, done
    capArg,       \* the capacity the harness passes to SharedBuffer(...)
    tasks,        \* the threads the harness creates, in start order
    nstarted,     \* how many of them it has started
    njoined,      \* how many of them it has joined
    capacity,     \* SharedBuffer.capacity
    buffer,       \* SharedBuffer.buffer
    lock,         \* SharedBuffer.lock: its holder, or NoThread
    not_full,     \* waiters of SharedBuffer.not_full, oldest first
    not_empty,    \* waiters of SharedBuffer.not_empty, oldest first
    pc,           \* position of each thread
    source,       \* Producer.source
    idx,          \* how many elements of source the producer's loop has put
    item_count,   \* Consumer.item_count
    taken,        \* how many iterations the consumer's loop has completed
    item,         \* the consumer's local variable item
    destination,  \* Consumer.destination
    putLog,       \* history: the items appended to the buffer, in order
    takeLog,      \* history: the items popped from the buffer, in order
    fullStamp,    \* history: Len(takeLog) when the put in progress last waited
    emptyStamp,   \* history: Len(putLog) when the take in progress last waited
    size_count,   \* how many size() calls each monitoring thread makes
    sized,        \* how many of them have returned
    size_result,  \* what the last one returned (NoSize before the first)
    demo_pc,      \* position of demo_queue_implementation()
    maxsize,      \* queue.Queue.maxsize of ProducerConsumerQueue.queue
    q_source,     \* the list demo_queue_implementation hands to pc.producer
    q_item_count, \* the count it hands to pc.consumer
    queue,        \* the items held by ProducerConsumerQueue.queue, oldest first
    unfinished_tasks, \* queue.Queue.unfinished_tasks
    q_pc,         \* position of the producer and consumer threads of the demo
    q_idx,        \* how many elements of source the queue producer has put
    q_taken,      \* how many iterations the queue consumer has completed
    q_item,       \* the queue consumer's local variable item
    q_destination, \* the destination list given to ProducerConsumerQueue.consumer
    sales_data,   \* SalesAnalyzer.sales_data
    query,        \* the SalesAnalyzer query last called, with its argument
    result        \* what that query returned

harnessVars == <<main_pc, capArg, tasks, nstarted, njoined>>
bufferVars == <<capacity, buffer, lock, not_full, not_empty>>
producerVars == <<source, idx>>
consumerVars == <<item_count, taken, item, destination>>
historyVars == <<putLog, takeLog, fullStamp, emptyStamp>>
monitorVars == <<size_count, sized, size_result>>
queueVars == <<demo_pc, maxsize, q_source, q_item_count, queue, unfinished_tasks, q_pc, q_idx, q_taken,
               q_item, q_destination>>
salesVars == <<sales_data, query, result>>
vars == <<harnessVars, bufferVars, pc, producerVars, consumerVars, historyVars,
          monitorVars, queueVars, salesVars>>

\* ----------------------------------------------------------------- helpers

\* All sequences over S of length 0..n.
SeqsUpTo(S, n) == UNION {[1..k -> S] : k \in 0..n}

\* The elements of the sequence s, as a set.
Range(s) == {s[i] : i \in 1..Len(s)}

\* How many times x occurs in the sequence s.
Count(s, x) == Cardinality({i \in 1..Len(s) : s[i] = x})

\* s is an initial segment of t.
IsPrefix(s, t) == Len(s) <= Len(t) /\ SubSeq(t, 1, Len(s)) = s

\* The harness has constructed the SharedBuffer.
built == main_pc # "construct"

producers == Range(tasks) \cap ProducerIds
consumers == Range(tasks) \cap ConsumerIds
monitors == Range(tasks) \cap MonitorIds

\* ------------------------------------------------- SharedBuffer, pure parts

\* Variant of IsFull: the buffer counts as full one item early.
IsFullOneEarly(buf, cap) == Len(buf) + 1 >= cap

\* Variant of IsFull: the test is off by one (> where >= is).
IsFullOffByOne(buf, cap) == Len(buf) > cap

\* Variant of IsEmpty: take waits on put's test (the loop copied from put).
IsEmptyAsInPut(buf) == Len(buf) >= capacity

\* SharedBuffer.put, the test of its while loop: len(self.buffer) >= self.capacity.
IsFull(buf, cap) == Len(buf) >= cap

\* SharedBuffer.take, the test of its while loop: len(self.buffer) == 0.
IsEmpty(buf) == Len(buf) = 0

\* Variant of AppendItem: the item is appended twice.
AppendItemTwice(buf, x) == Append(Append(buf, x), x)

\* Variant of AppendItem: the item is inserted at the head (insert(0, item)).
AppendItemAtHead(buf, x) == <<x>> \o buf

\* self.buffer.append(item): the list with item added at its tail.
AppendItem(buf, x) == Append(buf, x)

\* Variant of PopValue: the value at the tail is returned (pop() for pop(0)).
PopValueLast(buf) == buf[Len(buf)]

\* Variant of PopRest: the list is left as it was (buffer[0] for buffer.pop(0)).
PopRestKeep(buf) == buf

\* self.buffer.pop(0): the value it returns, and the list it leaves.
PopValue(buf) == Head(buf)
PopRest(buf) == Tail(buf)

\* Condition.notify(): the waiter it wakes (the oldest one), NoThread when
\* nobody waits, and the waiters left in the deque.
NotifyWoken(waiters) == IF waiters = <<>> THEN NoThread ELSE Head(waiters)
NotifyRest(waiters) == IF waiters = <<>> THEN <<>> ELSE Tail(waiters)

\* Variant of NextItem: the loop hands the first element to every put.
NextItemAlwaysFirst(p) == source[p][1]

\* The element the producer's for loop hands to put in its next iteration.
NextItem(p) == source[p][idx[p] + 1]

\* ------------------------------------------------------------- the harness

\* Variant of SharedBufferInit: a non-positive argument is raised to 1.
SharedBufferInitClamps ==
    /\ main_pc = "construct"
    /\ capacity' = IF capArg < 1 THEN 1 ELSE capArg
    /\ buffer' = <<>>
    /\ lock' = NoThread
    /\ not_full' = <<>>
    /\ not_empty' = <<>>
    /\ main_pc' = "start"
    /\ UNCHANGED <<monitorVars, queueVars, salesVars,
                   capArg, tasks, nstarted, njoined, pc,
                   producerVars, consumerVars, historyVars>>

\* SharedBuffer.__init__(capacity): the fields are set from the argument as
\* it is; no value of capacity is refused.
SharedBufferInit ==
    /\ main_pc = "construct"
    /\ capacity' = capArg
    /\ buffer' = <<>>
    /\ lock' = NoThread
    /\ not_full' = <<>>
    /\ not_empty' = <<>>
    /\ main_pc' = "start"
    /\ UNCHANGED <<monitorVars, queueVars, salesVars,
                   capArg, tasks, nstarted, njoined, pc, producerVars,
                   consumerVars, historyVars>>

\* producer.start() / consumer.start(): the next thread begins its run().
Start ==
    /\ main_pc = "start"
    /\ nstarted < Len(tasks)
    /\ pc' = [pc EXCEPT ![tasks[nstarted + 1]] = "run"]
    /\ nstarted' = nstarted + 1
    /\ main_pc' = IF nstarted + 1 = Len(tasks) THEN "join" ELSE "start"
    /\ UNCHANGED <<monitorVars, queueVars, salesVars,
                   capArg, tasks, njoined, bufferVars, producerVars,
                   consumerVars, historyVars>>

\* producer.join() / consumer.join(): returns once that thread's run() is over.
Join ==
    /\ main_pc = "join"
    /\ njoined < Len(tasks)
    /\ pc[tasks[njoined + 1]] \in {"done", "failed"}
    /\ njoined' = njoined + 1
    /\ main_pc' = IF njoined + 1 = Len(tasks) THEN "done" ELSE "join"
    /\ UNCHANGED <<monitorVars, queueVars, salesVars,
                   capArg, tasks, nstarted, bufferVars, pc, producerVars,
                   consumerVars, historyVars>>

\* ------------------------------------------------------------ Producer.run

\* for item in self.source: the loop has another element and calls put(item).
ProducerCallPut(p) ==
    /\ pc[p] = "run"
    /\ idx[p] < Len(source[p])
    /\ pc' = [pc EXCEPT ![p] = "put_enter"]
    /\ UNCHANGED <<monitorVars, queueVars, salesVars,
                   harnessVars, bufferVars, producerVars, consumerVars,
                   historyVars>>

\* Variant of ProducerFinish: the loop ends one element early.
ProducerFinishOneEarly(p) ==
    /\ pc[p] = "run"
    /\ idx[p] + 1 >= Len(source[p])
    /\ pc' = [pc EXCEPT ![p] = "done"]
    /\ UNCHANGED <<monitorVars, queueVars, salesVars,
                   harnessVars, bufferVars, producerVars, consumerVars,
                   historyVars>>

\* The source is exhausted: "Producer finished producing all items".
ProducerFinish(p) ==
    /\ pc[p] = "run"
    /\ idx[p] = Len(source[p])
    /\ pc' = [pc EXCEPT ![p] = "done"]
    /\ UNCHANGED <<monitorVars, queueVars, salesVars,
                   harnessVars, bufferVars, producerVars, consumerVars,
                   historyVars>>

\* Variant of ProducerFail: the failing producer empties the buffer.
ProducerFailClearsBuffer(p) ==
    /\ pc[p] = "run"
    /\ idx[p] < Len(source[p])
    /\ pc' = [pc EXCEPT ![p] = "failed"]
    /\ buffer' = <<>>
    /\ UNCHANGED <<harnessVars, capacity, lock, not_full, not_empty,
                   producerVars, consumerVars,
                   historyVars, monitorVars, queueVars, salesVars>>

\* The except clause of Producer.run: an exception raised inside the loop
\* before the next put (the source iterable failing to yield its next
\* element) is caught, "Producer error" is printed and run() returns with
\* the remaining elements never put.
ProducerFail(p) ==
    /\ pc[p] = "run"
    /\ idx[p] < Len(source[p])
    /\ pc' = [pc EXCEPT ![p] = "failed"]
    /\ UNCHANGED <<harnessVars, bufferVars, producerVars, consumerVars,
                   historyVars, monitorVars, queueVars, salesVars>>

\* -------------------------------------------------------- SharedBuffer.put

\* with self.not_full: the caller acquires the lock.
PutAcquire(p) ==
    /\ pc[p] = "put_enter"
    /\ lock = NoThread
    /\ lock' = p
    /\ pc' = [pc EXCEPT ![p] = "put_check"]
    /\ UNCHANGED <<monitorVars, queueVars, salesVars,
                   harnessVars, capacity, buffer, not_full, not_empty,
                   producerVars, consumerVars, historyVars>>

\* Variant of PutWait: the caller suspends without releasing the lock.
PutWaitKeepsLock(p) ==
    /\ pc[p] = "put_check"
    /\ lock = p
    /\ IsFull(buffer, capacity)
    /\ not_full' = Append(not_full, p)
    /\ pc' = [pc EXCEPT ![p] = "put_wait"]
    /\ fullStamp' = [fullStamp EXCEPT ![p] = Len(takeLog)]
    /\ UNCHANGED <<harnessVars, capacity, buffer, lock, not_empty,
                   producerVars, consumerVars, putLog, takeLog, emptyStamp,
                   monitorVars, queueVars, salesVars>>

\* Variant of PutWait: on a full buffer put does not wait; it drops the item
\* and goes on to its return.
PutWaitGivesUp(p) ==
    /\ pc[p] = "put_check"
    /\ lock = p
    /\ IsFull(buffer, capacity)
    /\ pc' = [pc EXCEPT ![p] = "put_exit"]
    /\ UNCHANGED <<monitorVars, queueVars, salesVars,
                   harnessVars, bufferVars, producerVars, consumerVars,
                   historyVars>>

\* The while test is true: self.not_full.wait() enqueues the caller on
\* not_full and releases the lock.
PutWait(p) ==
    /\ pc[p] = "put_check"
    /\ lock = p
    /\ IsFull(buffer, capacity)
    /\ not_full' = Append(not_full, p)
    /\ lock' = NoThread
    /\ pc' = [pc EXCEPT ![p] = "put_wait"]
    /\ fullStamp' = [fullStamp EXCEPT ![p] = Len(takeLog)]
    /\ UNCHANGED <<monitorVars, queueVars, salesVars,
                   harnessVars, capacity, buffer, not_empty, producerVars,
                   consumerVars, putLog, takeLog, emptyStamp>>

\* Variant of PutReacquire: the woken caller does not test again (an if
\* where the while is) and appends as soon as it holds the lock.
PutReacquireNoRecheck(p) ==
    /\ pc[p] = "put_woken"
    /\ lock = NoThread
    /\ lock' = p
    /\ buffer' = AppendItem(buffer, NextItem(p))
    /\ putLog' = Append(putLog, NextItem(p))
    /\ pc' = [pc EXCEPT ![p] = "put_notify"]
    /\ UNCHANGED <<monitorVars, queueVars, salesVars,
                   harnessVars, capacity, not_full, not_empty, producerVars,
                   consumerVars, takeLog, fullStamp, emptyStamp>>

\* wait() returns: the notified caller re-acquires the lock and goes back to
\* the while test.
PutReacquire(p) ==
    /\ pc[p] = "put_woken"
    /\ lock = NoThread
    /\ lock' = p
    /\ pc' = [pc EXCEPT ![p] = "put_check"]
    /\ UNCHANGED <<monitorVars, queueVars, salesVars,
                   harnessVars, capacity, buffer, not_full, not_empty,
                   producerVars, consumerVars, historyVars>>

\* Variant of PutAppend: capacity is kept as the number of free slots and
\* counted down on every append.
PutAppendCountsDown(p) ==
    /\ pc[p] = "put_check"
    /\ lock = p
    /\ ~IsFull(buffer, capacity)
    /\ buffer' = AppendItem(buffer, NextItem(p))
    /\ putLog' = Append(putLog, NextItem(p))
    /\ pc' = [pc EXCEPT ![p] = "put_notify"]
    /\ capacity' = capacity - 1
    /\ UNCHANGED <<monitorVars, queueVars, salesVars,
                   harnessVars, lock, not_full, not_empty,
                   producerVars, consumerVars, takeLog, fullStamp, emptyStamp>>

\* The while test is false: self.buffer.append(item).
PutAppend(p) ==
    /\ pc[p] = "put_check"
    /\ lock = p
    /\ ~IsFull(buffer, capacity)
    /\ buffer' = AppendItem(buffer, NextItem(p))
    /\ putLog' = Append(putLog, NextItem(p))
    /\ pc' = [pc EXCEPT ![p] = "put_notify"]
    /\ UNCHANGED <<monitorVars, queueVars, salesVars,
                   harnessVars, capacity, lock, not_full, not_empty,
                   producerVars, consumerVars, takeLog, fullStamp, emptyStamp>>

\* Variant of PutNotify: put does not notify anybody (the notify is left out).
PutNotifyNobody(p) ==
    /\ pc[p] = "put_notify"
    /\ lock = p
    /\ pc' = [pc EXCEPT ![p] = "put_exit"]
    /\ UNCHANGED <<monitorVars, queueVars, salesVars,
                   harnessVars, bufferVars, producerVars, consumerVars,
                   historyVars>>

\* Variant of PutNotify: put wakes every waiter of not_empty (notify_all()).
PutNotifyAll(p) ==
    /\ pc[p] = "put_notify"
    /\ lock = p
    /\ not_empty' = <<>>
    /\ pc' = [t \in ThreadIds |->
                 IF t = p THEN "put_exit"
                 ELSE IF \E i \in 1..Len(not_empty) : not_empty[i] = t
                      THEN "take_woken"
                      ELSE pc[t]]
    /\ UNCHANGED <<monitorVars, queueVars, salesVars,
                   harnessVars, capacity, buffer, lock, not_full,
                   producerVars, consumerVars, historyVars>>

\* self.not_empty.notify(): the oldest waiter of not_empty, if any, is woken.
PutNotify(p) ==
    /\ pc[p] = "put_notify"
    /\ lock = p
    /\ not_empty' = NotifyRest(not_empty)
    /\ pc' = IF NotifyWoken(not_empty) = NoThread
             THEN [pc EXCEPT ![p] = "put_exit"]
             ELSE [pc EXCEPT ![p] = "put_exit",
                             ![NotifyWoken(not_empty)] = "take_woken"]
    /\ UNCHANGED <<monitorVars, queueVars, salesVars,
                   harnessVars, capacity, buffer, lock, not_full,
                   producerVars, consumerVars, historyVars>>

\* The with block ends: the lock is released and put returns to the loop.
PutExit(p) ==
    /\ pc[p] = "put_exit"
    /\ lock = p
    /\ lock' = NoThread
    /\ idx' = [idx EXCEPT ![p] = idx[p] + 1]
    /\ pc' = [pc EXCEPT ![p] = "run"]
    /\ fullStamp' = [fullStamp EXCEPT ![p] = NoStamp]
    /\ UNCHANGED <<monitorVars, queueVars, salesVars,
                   harnessVars, capacity, buffer, not_full, not_empty,
                   source, consumerVars, putLog, takeLog, emptyStamp>>

\* ------------------------------------------------------------ Consumer.run

\* Variant of ConsumerCallTake: the loop runs once too often
\* (range(item_count + 1)).
ConsumerCallTakeOnceMore(c) ==
    /\ pc[c] = "run"
    /\ taken[c] <= item_count[c]
    /\ pc' = [pc EXCEPT ![c] = "take_enter"]
    /\ UNCHANGED <<monitorVars, queueVars, salesVars,
                   harnessVars, bufferVars, producerVars, consumerVars,
                   historyVars>>

\* for _ in range(self.item_count): another iteration calls take().
ConsumerCallTake(c) ==
    /\ pc[c] = "run"
    /\ taken[c] < item_count[c]
    /\ pc' = [pc EXCEPT ![c] = "take_enter"]
    /\ UNCHANGED <<monitorVars, queueVars, salesVars,
                   harnessVars, bufferVars, producerVars, consumerVars,
                   historyVars>>

\* Variant of ConsumerFinish: the loop runs range(item_count - 1).
ConsumerFinishOneShort(c) ==
    /\ pc[c] = "run"
    /\ taken[c] + 1 >= item_count[c]
    /\ pc' = [pc EXCEPT ![c] = "done"]
    /\ UNCHANGED <<monitorVars, queueVars, salesVars,
                   harnessVars, bufferVars, producerVars, consumerVars,
                   historyVars>>

\* item_count iterations are over: "Consumer finished consuming all items".
ConsumerFinish(c) ==
    /\ pc[c] = "run"
    /\ taken[c] = item_count[c]
    /\ pc' = [pc EXCEPT ![c] = "done"]
    /\ UNCHANGED <<monitorVars, queueVars, salesVars,
                   harnessVars, bufferVars, producerVars, consumerVars,
                   historyVars>>

\* Variant of ConsumerAppend: the item is inserted at the front of destination.
ConsumerPrepend(c) ==
    /\ pc[c] = "append"
    /\ destination' = [destination EXCEPT ![c] = <<item[c]>> \o destination[c]]
    /\ taken' = [taken EXCEPT ![c] = taken[c] + 1]
    /\ pc' = [pc EXCEPT ![c] = "run"]
    /\ UNCHANGED <<monitorVars, queueVars, salesVars,
                   harnessVars, bufferVars, producerVars, item_count, item,
                   historyVars>>

\* self.destination.append(item), and the iteration is over.
ConsumerAppend(c) ==
    /\ pc[c] = "append"
    /\ destination' = [destination EXCEPT ![c] = Append(destination[c], item[c])]
    /\ taken' = [taken EXCEPT ![c] = taken[c] + 1]
    /\ pc' = [pc EXCEPT ![c] = "run"]
    /\ UNCHANGED <<monitorVars, queueVars, salesVars,
                   harnessVars, bufferVars, producerVars, item_count, item,
                   historyVars>>

\* ------------------------------------------------------- SharedBuffer.take

\* with self.not_empty: the caller acquires the lock.
TakeAcquire(c) ==
    /\ pc[c] = "take_enter"
    /\ lock = NoThread
    /\ lock' = c
    /\ pc' = [pc EXCEPT ![c] = "take_check"]
    /\ UNCHANGED <<monitorVars, queueVars, salesVars,
                   harnessVars, capacity, buffer, not_full, not_empty,
                   producerVars, consumerVars, historyVars>>

\* Variant of TakeWait: on an empty buffer take raises instead of waiting
\* (a non-blocking take); the with block releases the lock and the except
\* clause of Consumer.run ends the thread.
TakeWaitRaises(c) ==
    /\ pc[c] = "take_check"
    /\ lock = c
    /\ IsEmpty(buffer)
    /\ lock' = NoThread
    /\ pc' = [pc EXCEPT ![c] = "failed"]
    /\ UNCHANGED <<harnessVars, capacity, buffer, not_full, not_empty,
                   producerVars, consumerVars, historyVars, monitorVars,
                   queueVars, salesVars>>

\* The while test is true: self.not_empty.wait() enqueues the caller on
\* not_empty and releases the lock.
TakeWait(c) ==
    /\ pc[c] = "take_check"
    /\ lock = c
    /\ IsEmpty(buffer)
    /\ not_empty' = Append(not_empty, c)
    /\ lock' = NoThread
    /\ pc' = [pc EXCEPT ![c] = "take_wait"]
    /\ emptyStamp' = [emptyStamp EXCEPT ![c] = Len(putLog)]
    /\ UNCHANGED <<monitorVars, queueVars, salesVars,
                   harnessVars, capacity, buffer, not_full, producerVars,
                   consumerVars, putLog, takeLog, fullStamp>>

\* Variant of TakeReacquire: the woken caller does not test again (an if
\* where the while is) and pops as soon as it holds the lock; pop(0) on an
\* empty list raises IndexError, which ends the thread.
TakeReacquireNoRecheck(c) ==
    /\ pc[c] = "take_woken"
    /\ lock = NoThread
    /\ IF Len(buffer) = 0
       THEN /\ pc' = [pc EXCEPT ![c] = "failed"]
            /\ emptyStamp' = [emptyStamp EXCEPT ![c] = NoStamp]
            /\ UNCHANGED <<lock, buffer, item, takeLog>>
       ELSE /\ lock' = c
            /\ item' = [item EXCEPT ![c] = PopValue(buffer)]
            /\ buffer' = PopRest(buffer)
            /\ takeLog' = Append(takeLog, PopValue(buffer))
            /\ pc' = [pc EXCEPT ![c] = "take_notify"]
            /\ UNCHANGED emptyStamp
    /\ UNCHANGED <<harnessVars, capacity, not_full, not_empty, producerVars,
                   item_count, taken, destination, putLog, fullStamp,
                   monitorVars, queueVars, salesVars>>

\* Variant of TakeReacquire: wait() returns as soon as it is notified,
\* without waiting for the lock to be free.
TakeReacquireWithoutLock(c) ==
    /\ pc[c] = "take_woken"
    /\ lock' = c
    /\ pc' = [pc EXCEPT ![c] = "take_check"]
    /\ UNCHANGED <<monitorVars, queueVars, salesVars,
                   harnessVars, capacity, buffer, not_full, not_empty,
                   producerVars, consumerVars, historyVars>>

\* wait() returns: the notified caller re-acquires the lock and goes back to
\* the while test.
TakeReacquire(c) ==
    /\ pc[c] = "take_woken"
    /\ lock = NoThread
    /\ lock' = c
    /\ pc' = [pc EXCEPT ![c] = "take_check"]
    /\ UNCHANGED <<monitorVars, queueVars, salesVars,
                   harnessVars, capacity, buffer, not_full, not_empty,
                   producerVars, consumerVars, historyVars>>

\* The while test is false: item = self.buffer.pop(0).  On an empty list
\* pop(0) raises IndexError: the with block releases the lock on the way out
\* and the except clause of Consumer.run ends the thread.
TakePop(c) ==
    /\ pc[c] = "take_check"
    /\ lock = c
    /\ ~IsEmpty(buffer)
    /\ IF Len(buffer) = 0
       THEN /\ lock' = NoThread
            /\ pc' = [pc EXCEPT ![c] = "done"]
            /\ emptyStamp' = [emptyStamp EXCEPT ![c] = NoStamp]
            /\ UNCHANGED <<buffer, item, takeLog>>
       ELSE /\ item' = [item EXCEPT ![c] = PopValue(buffer)]
            /\ buffer' = PopRest(buffer)
            /\ takeLog' = Append(takeLog, PopValue(buffer))
            /\ pc' = [pc EXCEPT ![c] = "take_notify"]
            /\ UNCHANGED <<lock, emptyStamp>>
    /\ UNCHANGED <<monitorVars, queueVars, salesVars,
                   harnessVars, capacity, not_full, not_empty, producerVars,
                   item_count, taken, destination, putLog, fullStamp>>

\* Variant of TakeNotify: take does not notify anybody (the notify is left
\* out).
TakeNotifyNobody(c) ==
    /\ pc[c] = "take_notify"
    /\ lock = c
    /\ pc' = [pc EXCEPT ![c] = "take_exit"]
    /\ UNCHANGED <<monitorVars, queueVars, salesVars,
                   harnessVars, bufferVars, producerVars, consumerVars,
                   historyVars>>

\* self.not_full.notify(): the oldest waiter of not_full, if any, is woken.
TakeNotify(c) ==
    /\ pc[c] = "take_notify"
    /\ lock = c
    /\ not_full' = NotifyRest(not_full)
    /\ pc' = IF NotifyWoken(not_full) = NoThread
             THEN [pc EXCEPT ![c] = "take_exit"]
             ELSE [pc EXCEPT ![c] = "take_exit",
                             ![NotifyWoken(not_full)] = "put_woken"]
    /\ UNCHANGED <<monitorVars, queueVars, salesVars,
                   harnessVars, capacity, buffer, lock, not_empty,
                   producerVars, consumerVars, historyVars>>

\* Variant of TakeExit: the return from inside the with block leaves the
\* lock with the caller.
TakeExitKeepsLock(c) ==
    /\ pc[c] = "take_exit"
    /\ lock = c
    /\ pc' = [pc EXCEPT ![c] = "append"]
    /\ emptyStamp' = [emptyStamp EXCEPT ![c] = NoStamp]
    /\ UNCHANGED <<monitorVars, queueVars, salesVars,
                   harnessVars, capacity, buffer, lock, not_full, not_empty,
                   producerVars, consumerVars, putLog, takeLog, fullStamp>>

\* return item: the with block ends, the lock is released, and the caller
\* has the item in hand.
TakeExit(c) ==
    /\ pc[c] = "take_exit"
    /\ lock = c
    /\ lock' = NoThread
    /\ pc' = [pc EXCEPT ![c] = "append"]
    /\ emptyStamp' = [emptyStamp EXCEPT ![c] = NoStamp]
    /\ UNCHANGED <<monitorVars, queueVars, salesVars,
                   harnessVars, capacity, buffer, not_full, not_empty,
                   producerVars, consumerVars, putLog, takeLog, fullStamp>>

\* ------------------------------------------- wait() returning unnotified

\* The waiters of a condition without thread t.
WithoutWaiter(waiters, t) ==
    LET Other(x) == x # t IN SelectSeq(waiters, Other)

\* self.not_full.wait() returns although nobody notified the caller (a
\* spurious wake-up): the caller leaves the waiters of not_full and, as
\* after a notify, has to get the lock back before wait() returns.
SpuriousWakePut(p) ==
    /\ pc[p] = "put_wait"
    /\ not_full' = WithoutWaiter(not_full, p)
    /\ pc' = [pc EXCEPT ![p] = "put_woken"]
    /\ UNCHANGED <<harnessVars, capacity, buffer, lock, not_empty,
                   producerVars, consumerVars, historyVars, monitorVars,
                   queueVars, salesVars>>

\* The same for self.not_empty.wait() in take.
SpuriousWakeTake(c) ==
    /\ pc[c] = "take_wait"
    /\ not_empty' = WithoutWaiter(not_empty, c)
    /\ pc' = [pc EXCEPT ![c] = "take_woken"]
    /\ UNCHANGED <<harnessVars, capacity, buffer, lock, not_full,
                   producerVars, consumerVars, historyVars, monitorVars,
                   queueVars, salesVars>>

\* ------------------------------------------------------- SharedBuffer.size

\* Variant of SizeOf: the free slots are returned (capacity - len).
SizeOfFreeSlots(buf) == capacity - Len(buf)

\* len(self.buffer), the value size() returns.
SizeOf(buf) == Len(buf)

\* A monitoring thread has another size() call to make.
MonitorCallSize(m) ==
    /\ pc[m] = "run"
    /\ sized[m] < size_count[m]
    /\ pc' = [pc EXCEPT ![m] = "size_enter"]
    /\ UNCHANGED <<harnessVars, bufferVars, producerVars, consumerVars,
                   historyVars, monitorVars, queueVars, salesVars>>

\* The monitoring thread has made all its calls: its run() returns.
MonitorFinish(m) ==
    /\ pc[m] = "run"
    /\ sized[m] = size_count[m]
    /\ pc' = [pc EXCEPT ![m] = "done"]
    /\ UNCHANGED <<harnessVars, bufferVars, producerVars, consumerVars,
                   historyVars, monitorVars, queueVars, salesVars>>

\* with self.lock: the caller gets the lock once nobody holds it.
SizeAcquire(m) ==
    /\ pc[m] = "size_enter"
    /\ lock = NoThread
    /\ lock' = m
    /\ pc' = [pc EXCEPT ![m] = "size_read"]
    /\ UNCHANGED <<harnessVars, capacity, buffer, not_full, not_empty,
                   producerVars, consumerVars, historyVars, monitorVars,
                   queueVars, salesVars>>

\* Variant of SizeReturn: on an empty buffer the caller waits on not_empty,
\* as take does, instead of returning 0.
SizeReturnWaitsWhenEmpty(m) ==
    /\ pc[m] = "size_read"
    /\ lock = m
    /\ lock' = NoThread
    /\ IF Len(buffer) = 0
       THEN /\ not_empty' = Append(not_empty, m)
            /\ pc' = [pc EXCEPT ![m] = "size_wait"]
            /\ UNCHANGED <<size_result, sized>>
       ELSE /\ size_result' = [size_result EXCEPT ![m] = SizeOf(buffer)]
            /\ sized' = [sized EXCEPT ![m] = sized[m] + 1]
            /\ pc' = [pc EXCEPT ![m] = "run"]
            /\ UNCHANGED not_empty
    /\ UNCHANGED <<harnessVars, capacity, buffer, not_full, producerVars,
                   consumerVars, historyVars, size_count, queueVars, salesVars>>

\* return len(self.buffer): the length is read under the lock, the with
\* block ends and releases the lock, and the caller has its answer.
SizeReturn(m) ==
    /\ pc[m] = "size_read"
    /\ lock = m
    /\ size_result' = [size_result EXCEPT ![m] = SizeOf(buffer)]
    /\ lock' = NoThread
    /\ sized' = [sized EXCEPT ![m] = sized[m] + 1]
    /\ pc' = [pc EXCEPT ![m] = "run"]
    /\ UNCHANGED <<harnessVars, capacity, buffer, not_full, not_empty,
                   producerVars, consumerVars, historyVars, size_count,
                   queueVars, salesVars>>

\* --------------------------------------------------- ProducerConsumerQueue

\* list(range(1, n + 1)): the list demo_queue_implementation builds for
\* itself (n is 10 in the script).
DemoRange(n) == [i \in 1..n |-> i]

\* queue.Queue.put would block: maxsize > 0 and the queue holds maxsize items
\* (a Queue with maxsize <= 0 is unbounded).
QueueIsFull == maxsize > 0 /\ Len(queue) >= maxsize

\* demo_queue_implementation() is called once main() has returned.  It has
\* a capacity and a source of its own (5 and list(range(1, 11)) in the
\* script, whatever main() used); ProducerConsumerQueue(capacity) builds
\* queue.Queue(maxsize=capacity), and the consumer is handed len(source).
QueueDemoConstruct ==
    /\ main_pc = "done"
    /\ demo_pc = "idle"
    /\ maxsize' \in 1..MaxCap
    /\ \E n \in 0..MaxLen :
          /\ q_source' = DemoRange(n)
          /\ q_item_count' = Len(DemoRange(n))
    /\ queue' = <<>>
    /\ unfinished_tasks' = 0
    /\ demo_pc' = "start_producer"
    /\ UNCHANGED <<harnessVars, bufferVars, pc, producerVars, consumerVars,
                   historyVars, monitorVars, q_pc, q_idx, q_taken, q_item,
                   q_destination, salesVars>>

\* producer_thread.start(), then consumer_thread.start().
QueueDemoStart ==
    /\ demo_pc \in {"start_producer", "start_consumer"}
    /\ q_pc' = [q_pc EXCEPT
                   ![IF demo_pc = "start_producer" THEN "QP" ELSE "QC"] = "run"]
    /\ demo_pc' = IF demo_pc = "start_producer"
                  THEN "start_consumer" ELSE "join_producer"
    /\ UNCHANGED <<harnessVars, bufferVars, pc, producerVars, consumerVars,
                   historyVars, monitorVars, maxsize, q_source, q_item_count, queue, unfinished_tasks,
                   q_idx, q_taken, q_item, q_destination, salesVars>>

\* producer_thread.join(), then consumer_thread.join().
QueueDemoJoin ==
    /\ demo_pc \in {"join_producer", "join_consumer"}
    /\ q_pc[IF demo_pc = "join_producer" THEN "QP" ELSE "QC"]
          \in {"done", "failed"}
    /\ demo_pc' = IF demo_pc = "join_producer" THEN "join_consumer" ELSE "done"
    /\ UNCHANGED <<harnessVars, bufferVars, pc, producerVars, consumerVars,
                   historyVars, monitorVars, maxsize, q_source, q_item_count, queue, unfinished_tasks,
                   q_pc, q_idx, q_taken, q_item, q_destination, salesVars>>

\* for item in source: self.queue.put(item).  Queue.put is one operation
\* under the queue's own mutex: it blocks while the queue is full, then
\* appends the item and counts it as an unfinished task.
QueueProducerPut ==
    /\ q_pc["QP"] = "run"
    /\ q_idx < Len(q_source)
    /\ ~QueueIsFull
    /\ queue' = Append(queue, q_source[q_idx + 1])
    /\ unfinished_tasks' = unfinished_tasks + 1
    /\ q_idx' = q_idx + 1
    /\ UNCHANGED <<harnessVars, bufferVars, pc, producerVars, consumerVars,
                   historyVars, monitorVars, demo_pc, maxsize, q_source, q_item_count, q_pc, q_taken,
                   q_item, q_destination, salesVars>>

\* The loop is over: "Producer finished producing all items".
QueueProducerFinish ==
    /\ q_pc["QP"] = "run"
    /\ q_idx = Len(q_source)
    /\ q_pc' = [q_pc EXCEPT !["QP"] = "done"]
    /\ UNCHANGED <<harnessVars, bufferVars, pc, producerVars, consumerVars,
                   historyVars, monitorVars, demo_pc, maxsize, q_source, q_item_count, queue,
                   unfinished_tasks, q_idx, q_taken, q_item, q_destination,
                   salesVars>>

\* Variant of QueueConsumerGet: the newest item is returned (a LifoQueue).
QueueConsumerGetNewest ==
    /\ q_pc["QC"] = "run"
    /\ q_taken < q_item_count
    /\ queue # <<>>
    /\ q_item' = queue[Len(queue)]
    /\ queue' = SubSeq(queue, 1, Len(queue) - 1)
    /\ q_pc' = [q_pc EXCEPT !["QC"] = "append"]
    /\ UNCHANGED <<harnessVars, bufferVars, pc, producerVars, consumerVars,
                   historyVars, monitorVars, demo_pc, maxsize, q_source, q_item_count,
                   unfinished_tasks, q_idx, q_taken, q_destination, salesVars>>

\* for _ in range(item_count): item = self.queue.get().  Queue.get is one
\* operation under the queue's mutex: it blocks while the queue is empty,
\* then removes and returns the oldest item.
QueueConsumerGet ==
    /\ q_pc["QC"] = "run"
    /\ q_taken < q_item_count
    /\ queue # <<>>
    /\ q_item' = Head(queue)
    /\ queue' = Tail(queue)
    /\ q_pc' = [q_pc EXCEPT !["QC"] = "append"]
    /\ UNCHANGED <<harnessVars, bufferVars, pc, producerVars, consumerVars,
                   historyVars, monitorVars, demo_pc, maxsize, q_source, q_item_count,
                   unfinished_tasks, q_idx, q_taken, q_destination, salesVars>>

\* destination.append(item)
QueueConsumerAppend ==
    /\ q_pc["QC"] = "append"
    /\ q_destination' = Append(q_destination, q_item)
    /\ q_pc' = [q_pc EXCEPT !["QC"] = "task_done"]
    /\ UNCHANGED <<harnessVars, bufferVars, pc, producerVars, consumerVars,
                   historyVars, monitorVars, demo_pc, maxsize, q_source, q_item_count, queue,
                   unfinished_tasks, q_idx, q_taken, q_item, salesVars>>

\* self.queue.task_done(): one unfinished task less (ValueError, which
\* nothing catches, when there is none), and the iteration is over.
QueueConsumerTaskDone ==
    /\ q_pc["QC"] = "task_done"
    /\ IF unfinished_tasks <= 0
       THEN /\ q_pc' = [q_pc EXCEPT !["QC"] = "failed"]
            /\ UNCHANGED <<unfinished_tasks, q_taken>>
       ELSE /\ unfinished_tasks' = unfinished_tasks - 1
            /\ q_taken' = q_taken + 1
            /\ q_pc' = [q_pc EXCEPT !["QC"] = "run"]
    /\ UNCHANGED <<harnessVars, bufferVars, pc, producerVars, consumerVars,
                   historyVars, monitorVars, demo_pc, maxsize, q_source, q_item_count, queue, q_idx,
                   q_item, q_destination, salesVars>>

\* The loop is over: "Consumer finished consuming all items".
QueueConsumerFinish ==
    /\ q_pc["QC"] = "run"
    /\ q_taken = q_item_count
    /\ q_pc' = [q_pc EXCEPT !["QC"] = "done"]
    /\ UNCHANGED <<harnessVars, bufferVars, pc, producerVars, consumerVars,
                   historyVars, monitorVars, demo_pc, maxsize, q_source, q_item_count, queue,
                   unfinished_tasks, q_idx, q_taken, q_item, q_destination,
                   salesVars>>

\* ----------------------------------------------------------- SalesAnalyzer

\* The values the fields of a SalesRecord are drawn from.  Only the fields
\* the queries below read are kept; amounts are whole numbers (total_price
\* in cents), so that sums are exact.
CustomerNames == {"Ann", "Bob"}
ProductNames == {"Pen", "Ink"}
PaymentMethods == {"Card", "Cash"}
Amounts == {1, 2}

\* The customer_id that goes with each customer_name in the generated
\* records (one id per customer).
CustomerIdOf == [c \in CustomerNames |-> IF c = "Ann" THEN "C001" ELSE "C002"]

\* The customer and the payment method of the generated order of product p,
\* quantity q and total price t.
CustomerOfOrder(p, q) == IF (p = "Pen") = (q = 1) THEN "Ann" ELSE "Bob"
PaymentOfOrder(q, t) == IF (q = 1) = (t = 1) THEN "Card" ELSE "Cash"

\* The records the analyzer is fed: eight orders, one per product, quantity
\* and total price, in which every two fields take every combination of
\* their values.
SalesRecords ==
    {[customer_id |-> CustomerIdOf[CustomerOfOrder(p, q)],
      customer_name |-> CustomerOfOrder(p, q),
      product_name |-> p, quantity |-> q, total_price |-> t,
      payment_method |-> PaymentOfOrder(q, t)] :
        p \in ProductNames, q \in Amounts, t \in Amounts}

\* s[:n] of a Python list: the first n elements when n >= 0, all but the
\* last -n when n < 0.
SliceTo(s, n) ==
    IF n >= 0
    THEN SubSeq(s, 1, IF n < Len(s) THEN n ELSE Len(s))
    ELSE SubSeq(s, 1, IF Len(s) + n > 0 THEN Len(s) + n ELSE 0)

\* agg[k] += v on a defaultdict kept as its items in insertion order: the
\* total of an existing key grows, a new key enters at the end with 0 + v.
AddTo(items, k, v) ==
    IF \E j \in 1..Len(items) : items[j][1] = k
    THEN [j \in 1..Len(items) |->
             IF items[j][1] = k THEN <<k, items[j][2] + v>> ELSE items[j]]
    ELSE Append(items, <<k, 0 + v>>)

\* Where a stable descending sort puts a new element of key value v among
\* the already sorted key values vals: after every element that is >= v.
InsertPos(vals, v) == Cardinality({i \in 1..Len(vals) : vals[i] >= v})

InsertAt(s, pos, x) == SubSeq(s, 1, pos) \o <<x>> \o SubSeq(s, pos + 1, Len(s))

\* Variant of SortPairsDesc: the pairs are put in ascending order of total
\* (reverse=True left out).
SortPairsAsc(pairs) ==
    LET sorted[i \in 0..Len(pairs)] ==
            IF i = 0 THEN <<>>
            ELSE LET done == sorted[i - 1]
                     pos == Cardinality({j \in 1..Len(done) :
                                            done[j][2] <= pairs[i][2]})
                 IN  InsertAt(done, pos, pairs[i])
    IN  sorted[Len(pairs)]

\* sorted(agg.items(), key=lambda x: x[1], reverse=True): the pairs in
\* descending order of total, equal totals in their original order.
SortPairsDesc(pairs) ==
    LET sorted[i \in 0..Len(pairs)] ==
            IF i = 0 THEN <<>>
            ELSE LET done == sorted[i - 1]
                     vals == [j \in 1..Len(done) |-> done[j][2]]
                 IN  InsertAt(done, InsertPos(vals, pairs[i][2]), pairs[i])
    IN  sorted[Len(pairs)]

\* SalesAnalyzer.top_n: the loop that aggregates value_fn by key_fn over
\* sales_data, then the sort and the slice.  key_fn and value_fn are
\* functions on records.
top_n(key_fn, value_fn, n) ==
    LET agg[i \in 0..Len(sales_data)] ==
            IF i = 0 THEN <<>>
            ELSE AddTo(agg[i - 1], key_fn[sales_data[i]], value_fn[sales_data[i]])
    IN  SliceTo(SortPairsDesc(agg[Len(sales_data)]), n)

\* The lambdas handed to top_n.
CustomerNameOf == [r \in SalesRecords |-> r.customer_name]
ProductNameOf == [r \in SalesRecords |-> r.product_name]
TotalPriceOf == [r \in SalesRecords |-> r.total_price]
QuantityOf == [r \in SalesRecords |-> r.quantity]

get_top_customers(n) == top_n(CustomerNameOf, TotalPriceOf, n)
get_top_products_by_quantity(n) == top_n(ProductNameOf, QuantityOf, n)
get_top_products_by_revenue(n) == top_n(ProductNameOf, TotalPriceOf, n)

\* Variant of IsAbove: the threshold itself passes (>= where > is).
IsAtOrAbove(r, threshold) == r.total_price >= threshold

\* lambda record: record.total_price > threshold
IsAbove(r, threshold) == r.total_price > threshold

\* filter(f, self.sales_data): the records that pass, in their order.
FilterAbove(data, threshold) ==
    LET kept[i \in 0..Len(data)] ==
            IF i = 0 THEN <<>>
            ELSE IF IsAbove(data[i], threshold)
                 THEN Append(kept[i - 1], data[i])
                 ELSE kept[i - 1]
    IN  kept[Len(data)]

\* sorted(records, key=lambda record: record.total_price, reverse=True)
SortRecordsDesc(records) ==
    LET sorted[i \in 0..Len(records)] ==
            IF i = 0 THEN <<>>
            ELSE LET done == sorted[i - 1]
                     vals == [j \in 1..Len(done) |-> done[j].total_price]
                 IN  InsertAt(done, InsertPos(vals, records[i].total_price),
                              records[i])
    IN  sorted[Len(records)]

get_orders_above_threshold(threshold) ==
    SortRecordsDesc(FilterAbove(sales_data, threshold))

\* Variant of CountOne: the method is marked as seen (= 1 where += 1 is).
MarkOne(items, k) ==
    IF \E j \in 1..Len(items) : items[j][1] = k
    THEN items
    ELSE Append(items, <<k, 1>>)

\* payment_counts[record.payment_method] += 1 on a defaultdict(int)
CountOne(items, k) == AddTo(items, k, 1)

\* SalesAnalyzer.get_order_count_by_payment_method: the dict, as its items
\* in insertion order.
get_order_count_by_payment_method ==
    LET payment_counts[i \in 0..Len(sales_data)] ==
            IF i = 0 THEN <<>>
            ELSE CountOne(payment_counts[i - 1], sales_data[i].payment_method)
    IN  payment_counts[Len(sales_data)]

\* SalesAnalyzer.calculate_total_revenue: reduce(acc + record.total_price)
\* over sales_data, from 0.0.
calculate_total_revenue ==
    LET acc[i \in 0..Len(sales_data)] ==
            IF i = 0 THEN 0 ELSE acc[i - 1] + sales_data[i].total_price
    IN  acc[Len(sales_data)]

\* Variant of calculate_average_order_value: the test for an empty list is
\* left out and the total is divided by len(self.sales_data) as it is.
AverageWithoutEmptyTest == <<calculate_total_revenue, Len(sales_data)>>

\* SalesAnalyzer.calculate_average_order_value, as the fraction
\* <<numerator, denominator>> of the division it performs: 0.0 (0 over 1)
\* when sales_data is empty, else the total over len(self.sales_data).
calculate_average_order_value ==
    IF Len(sales_data) = 0
    THEN <<0, 1>>
    ELSE <<calculate_total_revenue, Len(sales_data)>>

\* SalesAnalyzer.get_distinct_customers_count:
\* len(set(map(lambda record: record.customer_id, self.sales_data)))
get_distinct_customers_count ==
    Cardinality({sales_data[i].customer_id : i \in 1..Len(sales_data)})

\* The arguments the queries are called with.
TopArgs == (0 - 1)..(MaxRecords + 1)
Thresholds == {0} \cup Amounts

\* A row of a CSV file that _parse_row cannot turn into a SalesRecord: its
\* fields are empty, so int('') raises ValueError and the row becomes None.
UnparsableRow ==
    [customer_id |-> "", customer_name |-> "", product_name |-> "",
     quantity |-> 0, total_price |-> 0, payment_method |-> ""]

\* A row with fewer fields than the header: csv.DictReader fills the missing
\* ones with None, and int(None) raises TypeError, which _parse_row does not
\* catch.
ShortRow ==
    [customer_id |-> "C001", customer_name |-> "Ann", product_name |-> "None",
     quantity |-> 0, total_price |-> 0, payment_method |-> "None"]

\* The rows a CSV file may hold.
CsvRows == SalesRecords \cup {UnparsableRow, ShortRow}

\* The CSV files of up to MaxRecords rows.
CsvFiles == UNION {[1..k -> CsvRows] : k \in 0..MaxRecords}

\* Parsing the file raises: one of its rows is short.
ParseRaises(file) == \E i \in 1..Len(file) : file[i] = ShortRow

\* x is not None: the row was parsed.
IsParsed(row) == row # UnparsableRow

\* What load_data leaves in sales_data after reading the rows of a file: the
\* parsed rows in file order, the rows that failed to parse filtered out.
ParsedRows(file) == SelectSeq(file, IsParsed)

\* load_data(file_path), callable at any time.  When open() finds no file
\* (FileNotFoundError), or a short row makes the parsing raise TypeError,
\* the exception leaves load_data before sales_data is assigned, which keeps
\* what it held.  Otherwise sales_data is replaced by the parsed records of
\* the file, whatever it held before, and None is returned.
LoadData ==
    /\ \/ /\ sales_data' = sales_data
          /\ result' = <<"FileNotFoundError">>
       \/ \E file \in CsvFiles :
             IF ParseRaises(file)
             THEN /\ sales_data' = sales_data
                  /\ result' = <<"TypeError">>
             ELSE /\ sales_data' = ParsedRows(file)
                  /\ result' = <<>>
    /\ query' = <<"load_data", 0>>
    /\ UNCHANGED <<harnessVars, bufferVars, pc, producerVars, consumerVars,
                   historyVars, monitorVars, queueVars>>

CallTopCustomers ==
    \E n \in TopArgs :
        /\ query' = <<"get_top_customers", n>>
        /\ result' = get_top_customers(n)
        /\ UNCHANGED <<harnessVars, bufferVars, pc, producerVars, consumerVars,
                       historyVars, monitorVars, queueVars, sales_data>>

CallTopProductsByQuantity ==
    \E n \in TopArgs :
        /\ query' = <<"get_top_products_by_quantity", n>>
        /\ result' = get_top_products_by_quantity(n)
        /\ UNCHANGED <<harnessVars, bufferVars, pc, producerVars, consumerVars,
                       historyVars, monitorVars, queueVars, sales_data>>

CallTopProductsByRevenue ==
    \E n \in TopArgs :
        /\ query' = <<"get_top_products_by_revenue", n>>
        /\ result' = get_top_products_by_revenue(n)
        /\ UNCHANGED <<harnessVars, bufferVars, pc, producerVars, consumerVars,
                       historyVars, monitorVars, queueVars, sales_data>>

CallOrdersAboveThreshold ==
    \E t \in Thresholds :
        /\ query' = <<"get_orders_above_threshold", t>>
        /\ result' = get_orders_above_threshold(t)
        /\ UNCHANGED <<harnessVars, bufferVars, pc, producerVars, consumerVars,
                       historyVars, monitorVars, queueVars, sales_data>>

CallOrderCountByPaymentMethod ==
    /\ query' = <<"get_order_count_by_payment_method", 0>>
    /\ result' = get_order_count_by_payment_method
    /\ UNCHANGED <<harnessVars, bufferVars, pc, producerVars, consumerVars,
                   historyVars, monitorVars, queueVars, sales_data>>

CallTotalRevenue ==
    /\ query' = <<"calculate_total_revenue", 0>>
    /\ result' = <<calculate_total_revenue>>
    /\ UNCHANGED <<harnessVars, bufferVars, pc, producerVars, consumerVars,
                   historyVars, monitorVars, queueVars, sales_data>>

CallAverageOrderValue ==
    /\ query' = <<"calculate_average_order_value", 0>>
    /\ result' = calculate_average_order_value
    /\ UNCHANGED <<harnessVars, bufferVars, pc, producerVars, consumerVars,
                   historyVars, monitorVars, queueVars, sales_data>>

CallDistinctCustomersCount ==
    /\ query' = <<"get_distinct_customers_count", 0>>
    /\ result' = <<get_distinct_customers_count>>
    /\ UNCHANGED <<harnessVars, bufferVars, pc, producerVars, consumerVars,
                   historyVars, monitorVars, queueVars, sales_data>>

\* ---------------------------------------------------------- specifications

\* No monitoring thread: nobody calls size().
NoMonitor ==
    /\ size_count = [m \in MonitorIds |-> 0]
    /\ sized = [m \in MonitorIds |-> 0]
    /\ size_result = [m \in MonitorIds |-> NoSize]

\* demo_queue_implementation() has not been called: no ProducerConsumerQueue
\* exists (its fields hold blank values that nothing reads before then).
NoQueueDemo ==
    /\ demo_pc = "idle"
    /\ maxsize = 0
    /\ q_source = <<>>
    /\ q_item_count = 0
    /\ queue = <<>>
    /\ unfinished_tasks = 0
    /\ q_pc = [t \in QueueThreadIds |-> "new"]
    /\ q_idx = 0
    /\ q_taken = 0
    /\ q_item = NoItem
    /\ q_destination = <<>>

\* No SalesAnalyzer in the run.
NoSales ==
    /\ sales_data = <<>>
    /\ query = <<"none", 0>>
    /\ result = <<>>

\* What every harness starts from: no thread started, and no buffer yet (its
\* fields hold blank values that nothing reads before SharedBuffer(...) runs;
\* built tells whether the object exists).
InitCommon ==
    /\ main_pc = "construct"
    /\ nstarted = 0
    /\ njoined = 0
    /\ capacity = 0
    /\ buffer = <<>>
    /\ lock = NoThread
    /\ not_full = <<>>
    /\ not_empty = <<>>
    /\ pc = [t \in ThreadIds |-> "new"]
    /\ idx = [p \in ProducerIds |-> 0]
    /\ taken = [c \in ConsumerIds |-> 0]
    /\ item = [c \in ConsumerIds |-> NoItem]
    /\ destination = [c \in ConsumerIds |-> <<>>]
    /\ putLog = <<>>
    /\ takeLog = <<>>
    /\ fullStamp = [p \in ProducerIds |-> NoStamp]
    /\ emptyStamp = [c \in ConsumerIds |-> NoStamp]
    /\ NoMonitor
    /\ NoQueueDemo
    /\ NoSales

\* main(): one SharedBuffer of capacity >= 1, one Producer over a source
\* list, one Consumer with item_count = len(source).
Init ==
    /\ InitCommon
    /\ capArg \in 1..MaxCap
    /\ tasks = <<"P1", "C1">>
    /\ \E s \in SeqsUpTo(1..NumItems, MaxLen) :
          /\ source = [p \in ProducerIds |-> IF p = "P1" THEN s ELSE <<>>]
          /\ item_count = [c \in ConsumerIds |-> IF c = "C1" THEN Len(s) ELSE 0]

\* One step of a started thread: a statement of Producer.run, Consumer.run,
\* SharedBuffer.put or SharedBuffer.take.
ThreadStep ==
    \/ \E p \in producers : ProducerCallPut(p)
    \/ \E p \in producers : ProducerFinish(p)
    \/ \E p \in producers : PutAcquire(p)
    \/ \E p \in producers : PutWait(p)
    \/ \E p \in producers : PutReacquire(p)
    \/ \E p \in producers : PutAppend(p)
    \/ \E p \in producers : PutNotify(p)
    \/ \E p \in producers : PutExit(p)
    \/ \E c \in consumers : ConsumerCallTake(c)
    \/ \E c \in consumers : ConsumerFinish(c)
    \/ \E c \in consumers : ConsumerAppend(c)
    \/ \E c \in consumers : TakeAcquire(c)
    \/ \E c \in consumers : TakeWait(c)
    \/ \E c \in consumers : TakeReacquire(c)
    \/ \E c \in consumers : TakePop(c)
    \/ \E c \in consumers : TakeNotify(c)
    \/ \E c \in consumers : TakeExit(c)

Next ==
    \/ SharedBufferInit
    \/ Start
    \/ Join
    \/ ThreadStep

Spec == Init /\ [][Next]_vars

\* The source list of length n given to producer p when several producers
\* share the buffer: items that name their producer and their position, so
\* that every item of the run is distinguishable from every other.
TaggedSource(p, n) == [k \in 1..n |-> (IF p = "P1" THEN 10 ELSE 20) + k]

\* Two Producers and two Consumers on one SharedBuffer of capacity >= 1, from
\* the moment the harness has built the buffer and started the four threads;
\* the source lengths and the item counts are chosen independently.
InitMulti ==
    /\ main_pc = "join"
    /\ capArg \in 1..MaxCap
    /\ tasks = <<"P1", "P2", "C1", "C2">>
    /\ nstarted = 4
    /\ njoined = 0
    /\ capacity = capArg
    /\ buffer = <<>>
    /\ lock = NoThread
    /\ not_full = <<>>
    /\ not_empty = <<>>
    /\ pc = [t \in ThreadIds |-> IF t \in Range(tasks) THEN "run" ELSE "new"]
    /\ \E n \in [ProducerIds -> 0..MaxItemsMulti] :
          /\ n["P1"] + n["P2"] <= MaxItemsMulti
          /\ source = [p \in ProducerIds |-> TaggedSource(p, n[p])]
    /\ idx = [p \in ProducerIds |-> 0]
    /\ item_count \in [ConsumerIds -> 0..MaxTakesMulti]
    /\ item_count["C1"] + item_count["C2"] <= MaxTakesMulti
    /\ taken = [c \in ConsumerIds |-> 0]
    /\ item = [c \in ConsumerIds |-> NoItem]
    /\ destination = [c \in ConsumerIds |-> <<>>]
    /\ putLog = <<>>
    /\ takeLog = <<>>
    /\ fullStamp = [p \in ProducerIds |-> NoStamp]
    /\ emptyStamp = [c \in ConsumerIds |-> NoStamp]
    /\ NoMonitor
    /\ NoQueueDemo
    /\ NoSales

SpecMulti == InitMulti /\ [][ThreadStep]_vars

\* main() with any capacity argument, non-positive ones included.
InitAnyCap ==
    /\ InitCommon
    /\ capArg \in (0 - 1)..MaxCap
    /\ tasks = <<"P1", "C1">>
    /\ \E s \in SeqsUpTo(1..NumItems, MaxLen) :
          /\ source = [p \in ProducerIds |-> IF p = "P1" THEN s ELSE <<>>]
          /\ item_count = [c \in ConsumerIds |-> IF c = "C1" THEN Len(s) ELSE 0]

SpecAnyCap == InitAnyCap /\ [][Next]_vars

\* One Producer, one Consumer and one monitoring thread on one SharedBuffer
\* of capacity >= 1, from the moment the threads have been started.  The
\* item count is independent of the source, so that either side may be left
\* waiting while size() is called.
InitSize ==
    /\ main_pc = "join"
    /\ capArg \in 1..MaxCap
    /\ tasks = <<"P1", "C1", "M1">>
    /\ nstarted = 3
    /\ njoined = 0
    /\ capacity = capArg
    /\ buffer = <<>>
    /\ lock = NoThread
    /\ not_full = <<>>
    /\ not_empty = <<>>
    /\ pc = [t \in ThreadIds |-> IF t \in Range(tasks) THEN "run" ELSE "new"]
    /\ \E n \in 0..MaxLen :
          source = [p \in ProducerIds |->
                       IF p = "P1" THEN TaggedSource(p, n) ELSE <<>>]
    /\ idx = [p \in ProducerIds |-> 0]
    /\ \E k \in 0..MaxLen :
          item_count = [c \in ConsumerIds |-> IF c = "C1" THEN k ELSE 0]
    /\ taken = [c \in ConsumerIds |-> 0]
    /\ item = [c \in ConsumerIds |-> NoItem]
    /\ destination = [c \in ConsumerIds |-> <<>>]
    /\ putLog = <<>>
    /\ takeLog = <<>>
    /\ fullStamp = [p \in ProducerIds |-> NoStamp]
    /\ emptyStamp = [c \in ConsumerIds |-> NoStamp]
    /\ size_count \in [MonitorIds -> 0..MaxSizeCalls]
    /\ sized = [m \in MonitorIds |-> 0]
    /\ size_result = [m \in MonitorIds |-> NoSize]
    /\ NoQueueDemo
    /\ NoSales

\* One step of a monitoring thread.
MonitorStep ==
    \/ \E m \in monitors : MonitorCallSize(m)
    \/ \E m \in monitors : MonitorFinish(m)
    \/ \E m \in monitors : SizeAcquire(m)
    \/ \E m \in monitors : SizeReturn(m)

NextSize ==
    \/ ThreadStep
    \/ MonitorStep

SpecSize == InitSize /\ [][NextSize]_vars

\* All the statements of producer p, and of consumer c.
ProducerStep(p) ==
    \/ ProducerCallPut(p)
    \/ ProducerFinish(p)
    \/ PutAcquire(p)
    \/ PutWait(p)
    \/ PutReacquire(p)
    \/ PutAppend(p)
    \/ PutNotify(p)
    \/ PutExit(p)

ConsumerStep(c) ==
    \/ ConsumerCallTake(c)
    \/ ConsumerFinish(c)
    \/ ConsumerAppend(c)
    \/ TakeAcquire(c)
    \/ TakeWait(c)
    \/ TakeReacquire(c)
    \/ TakePop(c)
    \/ TakeNotify(c)
    \/ TakeExit(c)

\* Fair scheduling: the main thread and every started thread that can take
\* a step, and keeps being able to, eventually takes one.  A thread that
\* wants the lock is only promised it if the lock stays free.
Fairness ==
    /\ WF_vars(SharedBufferInit \/ Start \/ Join)
    /\ \A p \in ProducerIds : WF_vars(ProducerStep(p))
    /\ \A c \in ConsumerIds : WF_vars(ConsumerStep(c))

FairSpec == Init /\ [][Next]_vars /\ Fairness

\* main() with any capacity argument, under the same fair scheduling.
FairSpecAnyCap == InitAnyCap /\ [][Next]_vars /\ Fairness

\* All the statements of monitoring thread m.
MonitorStepOf(m) ==
    \/ MonitorCallSize(m)
    \/ MonitorFinish(m)
    \/ SizeAcquire(m)
    \/ SizeReturn(m)

\* The three threads around size() are scheduled fairly as well.
FairnessSize ==
    /\ \A p \in ProducerIds : WF_vars(ProducerStep(p))
    /\ \A c \in ConsumerIds : WF_vars(ConsumerStep(c))
    /\ \A m \in MonitorIds : WF_vars(MonitorStepOf(m))

FairSpecSize == InitSize /\ [][NextSize]_vars /\ FairnessSize

\* The statements of demo_queue_implementation() and of its two threads.
QueueHarnessStep ==
    \/ QueueDemoConstruct
    \/ QueueDemoStart
    \/ QueueDemoJoin

QueueProducerStep ==
    \/ QueueProducerPut
    \/ QueueProducerFinish

QueueConsumerStep ==
    \/ QueueConsumerGet
    \/ QueueConsumerAppend
    \/ QueueConsumerTaskDone
    \/ QueueConsumerFinish

\* The script: main(), then demo_queue_implementation() with its own
\* capacity and source.
NextBoth ==
    \/ Next
    \/ QueueHarnessStep
    \/ QueueProducerStep
    \/ QueueConsumerStep

SpecBoth == Init /\ [][NextBoth]_vars

FairnessQueue ==
    /\ WF_vars(QueueHarnessStep)
    /\ WF_vars(QueueProducerStep)
    /\ WF_vars(QueueConsumerStep)

FairSpecBoth == Init /\ [][NextBoth]_vars /\ Fairness /\ FairnessQueue

\* A SalesAnalyzer, fresh (sales_data empty) or loaded with any list of up
\* to MaxRecords records; no buffer is built and no thread runs.
InitSales ==
    /\ main_pc = "construct"
    /\ capArg = 1
    /\ tasks = <<>>
    /\ nstarted = 0
    /\ njoined = 0
    /\ capacity = 0
    /\ buffer = <<>>
    /\ lock = NoThread
    /\ not_full = <<>>
    /\ not_empty = <<>>
    /\ pc = [t \in ThreadIds |-> "new"]
    /\ source = [p \in ProducerIds |-> <<>>]
    /\ idx = [p \in ProducerIds |-> 0]
    /\ item_count = [c \in ConsumerIds |-> 0]
    /\ taken = [c \in ConsumerIds |-> 0]
    /\ item = [c \in ConsumerIds |-> NoItem]
    /\ destination = [c \in ConsumerIds |-> <<>>]
    /\ putLog = <<>>
    /\ takeLog = <<>>
    /\ fullStamp = [p \in ProducerIds |-> NoStamp]
    /\ emptyStamp = [c \in ConsumerIds |-> NoStamp]
    /\ NoMonitor
    /\ NoQueueDemo
    /\ sales_data \in SeqsUpTo(SalesRecords, MaxRecords)
    /\ query = <<"none", 0>>
    /\ result = <<>>

NextSales ==
    \/ LoadData
    \/ CallTopCustomers
    \/ CallTopProductsByQuantity
    \/ CallTopProductsByRevenue
    \/ CallOrdersAboveThreshold
    \/ CallOrderCountByPaymentMethod
    \/ CallTotalRevenue
    \/ CallAverageOrderValue
    \/ CallDistinctCustomersCount

SpecSales == InitSales /\ [][NextSales]_vars

\* Two Producers and two Consumers on one SharedBuffer of capacity >= 1,
\* started, with as many puts to make in total as takes.
InitBalanced ==
    /\ main_pc = "join"
    /\ capArg \in 1..MaxCap
    /\ tasks = <<"P1", "P2", "C1", "C2">>
    /\ nstarted = 4
    /\ njoined = 0
    /\ capacity = capArg
    /\ buffer = <<>>
    /\ lock = NoThread
    /\ not_full = <<>>
    /\ not_empty = <<>>
    /\ pc = [t \in ThreadIds |-> IF t \in Range(tasks) THEN "run" ELSE "new"]
    /\ \E n \in [ProducerIds -> 0..MaxBalanced] :
          /\ n["P1"] + n["P2"] <= MaxBalanced
          /\ source = [p \in ProducerIds |-> TaggedSource(p, n[p])]
    /\ idx = [p \in ProducerIds |-> 0]
    /\ item_count \in [ConsumerIds -> 0..MaxBalanced]
    /\ item_count["C1"] + item_count["C2"]
          = Len(source["P1"]) + Len(source["P2"])
    /\ taken = [c \in ConsumerIds |-> 0]
    /\ item = [c \in ConsumerIds |-> NoItem]
    /\ destination = [c \in ConsumerIds |-> <<>>]
    /\ putLog = <<>>
    /\ takeLog = <<>>
    /\ fullStamp = [p \in ProducerIds |-> NoStamp]
    /\ emptyStamp = [c \in ConsumerIds |-> NoStamp]
    /\ NoMonitor
    /\ NoQueueDemo
    /\ NoSales

\* The started threads are scheduled fairly.
FairnessThreads ==
    /\ \A p \in ProducerIds : WF_vars(ProducerStep(p))
    /\ \A c \in ConsumerIds : WF_vars(ConsumerStep(c))

FairSpecBalanced == InitBalanced /\ [][ThreadStep]_vars /\ FairnessThreads

\* Two Producers and two Consumers on a platform whose wait() may return
\* at any time without a notify.
NextSpurious ==
    \/ ThreadStep
    \/ \E p \in producers : SpuriousWakePut(p)
    \/ \E c \in consumers : SpuriousWakeTake(c)

SpecSpurious == InitMulti /\ [][NextSpurious]_vars

\* main() with a Producer whose loop may fail before any of its puts.
NextFail ==
    \/ Next
    \/ \E p \in producers : ProducerFail(p)

SpecFail == Init /\ [][NextFail]_vars

\* The threads are scheduled fairly; nothing obliges the loop to fail.
FairSpecFail == Init /\ [][NextFail]_vars /\ Fairness

\* ------------------------------------------------------------------ claims

\* Both threads of the one-producer harness have left their run loops.
BothFinished == pc["P1"] = "done" /\ pc["C1"] = "done"

\* C1: with one Producer over S and one Consumer with item_count = len(S) on
\* a SharedBuffer of capacity >= 1, once both have finished destination is S,
\* element for element, whatever the interleaving was.
C1_DestinationEqualsSource ==
    BothFinished => destination["C1"] = source["P1"]

\* A finished run whose source is longer than the capacity and holds two
\* different values in its first two positions.
C1_Witness ==
    /\ BothFinished
    /\ Len(source["P1"]) > capacity
    /\ source["P1"][1] # source["P1"][2]
    /\ Len(destination["C1"]) = Len(source["P1"])

\* C3: once both have finished, every value occurs in destination exactly as
\* often as in the source: nothing is missing and nothing is duplicated.
C3_SameMultiset ==
    BothFinished =>
        /\ Len(destination["C1"]) = Len(source["P1"])
        /\ \A v \in 1..NumItems :
              Count(destination["C1"], v) = Count(source["P1"], v)

\* A finished run whose source holds one value twice and another value once,
\* on a buffer that can hold two items.
C3_Witness ==
    /\ BothFinished
    /\ capacity >= 2
    /\ Len(source["P1"]) >= 3
    /\ \E v \in 1..NumItems : Count(source["P1"], v) = 2
    /\ \E v \in 1..NumItems : Count(destination["C1"], v) = 1

\* C2: the buffer never holds fewer than 0 or more than capacity items,
\* whatever the interleaving of the put and take calls of several threads; a
\* producer woken for a slot that another producer has filled does not append.
C2_SizeWithinCapacity ==
    /\ 0 <= Len(buffer)
    /\ Len(buffer) <= capacity

\* A producer that waited, was woken by a take, and holds the lock again at
\* the while test with the buffer full once more: the other producer has
\* taken the freed slot.
C2_Witness ==
    \E p \in producers :
        /\ pc[p] = "put_check"
        /\ lock = p
        /\ fullStamp[p] # NoStamp
        /\ Len(takeLog) > fullStamp[p]
        /\ Len(buffer) = capacity

\* The consumer has popped an item that it has not yet appended to destination.
InHand(c) == pc[c] \in {"take_notify", "take_exit", "append"}

\* In how many places the item x is: the buffer, a consumer's hand, a destination.
PlacesOf(x) ==
    Count(buffer, x)
    + Cardinality({c \in consumers : InHand(c) /\ item[c] = x})
    + Count(destination["C1"], x)
    + Count(destination["C2"], x)

\* C4: with two producers and two consumers, every item whose put has
\* returned is in exactly one place: the buffer, the local variable of a
\* consumer that has popped it and not yet appended it, or a destination.
C4_AcceptedItemInOnePlace ==
    \A p \in producers : \A k \in 1..idx[p] : PlacesOf(source[p][k]) = 1

\* Items of both producers are accepted, and at the same moment one item is in
\* the buffer, one in a consumer's hand and one in a destination.
C4_Witness ==
    /\ idx["P1"] >= 1
    /\ idx["P2"] >= 1
    /\ buffer # <<>>
    /\ \E c \in consumers : pc[c] = "append"
    /\ \E c \in consumers : destination[c] # <<>>

\* C5: the k-th value popped by take is the k-th value appended by put, for
\* every k, however the calls of the four threads interleave; and what the
\* buffer holds is exactly what was appended and not yet popped, in order.
C5_Fifo ==
    /\ \A k \in 1..Len(takeLog) : k <= Len(putLog) /\ takeLog[k] = putLog[k]
    /\ putLog = takeLog \o buffer

\* Two takes have returned, the first an item of P2 and the second an item of
\* P1, while a third item is still in the buffer.
C5_Witness ==
    /\ Len(takeLog) >= 2
    /\ takeLog[1] > 20
    /\ takeLog[2] < 20
    /\ buffer # <<>>
    /\ \A c \in consumers : pc[c] \in {"run", "done"}

\* C6: a put that finds the buffer full at its while test (on entry or after
\* a wake-up) appends nothing and does not return: its only step is to wait.
\* While it is blocked its item is not in the buffer and its loop does not
\* advance; it is woken only after a take has popped an item, and it passes
\* the test only after a take has popped an item since it last waited.
C6_PutBlocksWhileFull ==
    [][\A p \in producers :
        /\ (pc[p] = "put_check" /\ Len(buffer) >= capacity /\ pc'[p] # pc[p])
              => /\ pc'[p] = "put_wait"
                 /\ buffer' = buffer
                 /\ putLog' = putLog
                 /\ idx'[p] = idx[p]
        /\ pc[p] \in {"put_wait", "put_woken"}
              => /\ pc'[p] \in {"put_wait", "put_woken", "put_check"}
                 /\ idx'[p] = idx[p]
                 /\ source[p][idx[p] + 1] \notin Range(buffer')
        /\ (pc[p] = "put_wait" /\ pc'[p] = "put_woken")
              => Len(takeLog) > fullStamp[p]
        /\ (pc[p] = "put_check" /\ pc'[p] = "put_notify" /\ fullStamp[p] # NoStamp)
              => Len(takeLog) > fullStamp[p]
      ]_vars

\* A put that waited on a full buffer has appended its item after a take.
C6_Witness ==
    \E p \in producers :
        /\ pc[p] = "put_notify"
        /\ fullStamp[p] # NoStamp
        /\ Len(takeLog) > fullStamp[p]
        /\ Len(buffer) = capacity

\* C7: a take that finds the buffer empty at its while test (on entry or
\* after a wake-up) pops nothing and does not return: its only step is to
\* wait.  It is woken only after a put has appended an item, it passes the
\* test only after a put has appended an item since it last waited, and the
\* value a take returns is one that a put has appended.
C7_TakeBlocksWhileEmpty ==
    [][\A c \in consumers :
        /\ (pc[c] = "take_check" /\ Len(buffer) = 0 /\ pc'[c] # pc[c])
              => /\ pc'[c] = "take_wait"
                 /\ buffer' = buffer
                 /\ takeLog' = takeLog
                 /\ item'[c] = item[c]
        /\ pc[c] \in {"take_wait", "take_woken"}
              => /\ pc'[c] \in {"take_wait", "take_woken", "take_check"}
                 /\ item'[c] = item[c]
                 /\ taken'[c] = taken[c]
        /\ (pc[c] = "take_wait" /\ pc'[c] = "take_woken")
              => Len(putLog) > emptyStamp[c]
        /\ (pc[c] = "take_check" /\ pc'[c] = "take_notify" /\ emptyStamp[c] # NoStamp)
              => Len(putLog) > emptyStamp[c]
        /\ (pc[c] = "take_exit" /\ pc'[c] = "append")
              => item'[c] \in Range(putLog)
      ]_vars

\* A take that waited on an empty buffer has popped an item after a put.
C7_Witness ==
    \E c \in consumers :
        /\ pc[c] = "take_notify"
        /\ emptyStamp[c] # NoStamp
        /\ Len(putLog) > emptyStamp[c]
        /\ item[c] \in Range(putLog)

\* C8: SharedBuffer(capacity) with capacity <= 0 is refused: no buffer object
\* exists on which put, take or size could be called.
C8_NonPositiveCapacityRefused ==
    built => capacity >= 1

\* C9: under fair scheduling, with capacity >= 1 and item_count = len(S), the
\* producer and the consumer both leave their run loops and main's joins
\* return; the two are never both suspended in wait; and a thread suspended
\* in wait is always woken later.
C9_BothFinish ==
    /\ [](~(pc["P1"] = "put_wait" /\ pc["C1"] = "take_wait"))
    /\ <>[](BothFinished /\ main_pc = "done")
    /\ (pc["P1"] = "put_wait") ~> (pc["P1"] = "put_woken")
    /\ (pc["C1"] = "take_wait") ~> (pc["C1"] = "take_woken")

\* main has joined both threads of a run that moved three items through a
\* buffer of capacity 1.
C9_Witness ==
    /\ main_pc = "done"
    /\ capacity = 1
    /\ Len(source["P1"]) = 3
    /\ Len(takeLog) = 3

\* The run with source = [] and item_count = 0.
EmptyRun == source["P1"] = <<>> /\ item_count["C1"] = 0

\* Nobody is in put or take or has been, and nothing has moved.
Quiet ==
    /\ pc["P1"] \in {"new", "run", "done"}
    /\ pc["C1"] \in {"new", "run", "done"}
    /\ destination["C1"] = <<>>
    /\ putLog = <<>>
    /\ takeLog = <<>>
    /\ built => /\ buffer = <<>>
                /\ lock = NoThread
                /\ not_full = <<>>
                /\ not_empty = <<>>

\* C10: with source = [] and item_count = 0 neither thread ever enters put or
\* take or waits on a condition, destination and the buffer stay empty, and
\* under fair scheduling both threads complete and are joined.
C10_EmptyRunIsQuiet ==
    /\ [](EmptyRun => Quiet)
    /\ EmptyRun ~> (BothFinished /\ main_pc = "done")

\* The empty run, over: both threads joined, nothing moved.
C10_Witness ==
    /\ EmptyRun
    /\ main_pc = "done"
    /\ BothFinished
    /\ destination["C1"] = <<>>
    /\ buffer = <<>>

\* A step of monitoring thread m inside size().
SizeStepOf(m) == pc[m] \in {"size_enter", "size_read"} /\ pc'[m] # pc[m]

\* C11: the step on which size() returns hands back the number of items in
\* storage at that moment, which is the number of completed appends minus
\* the number of completed removals, and no step of a size() call changes
\* the storage, the capacity or the waiters of either condition.
C11_SizeReturnsOccupancy ==
    [][\A m \in MonitorIds :
          /\ SizeStepOf(m) =>
                UNCHANGED <<buffer, capacity, not_full, not_empty>>
          /\ (pc[m] = "size_read" /\ pc'[m] = "run") =>
                /\ size_result'[m] = Len(buffer)
                /\ size_result'[m] = Len(putLog) - Len(takeLog)]_vars

\* size() has answered with a full buffer's length while a producer was
\* suspended on not_full.
C11_Witness ==
    \E m \in MonitorIds :
        /\ sized[m] >= 1
        /\ pc[m] = "run"
        /\ size_result[m] = capacity
        /\ Len(buffer) = capacity
        /\ not_full # <<>>

\* C12: size() never waits on a condition.  A size() caller is never among
\* the waiters of not_full or not_empty, whatever the occupancy and whoever
\* is suspended; once it holds the lock its only step is the return; and
\* under fair scheduling every size() call that has begun returns.
C12_SizeNeverWaits ==
    /\ [](\A m \in MonitorIds :
             /\ \A i \in 1..Len(not_full) : not_full[i] # m
             /\ \A i \in 1..Len(not_empty) : not_empty[i] # m
             /\ pc[m] \in {"new", "run", "size_enter", "size_read", "done"})
    /\ [][\A m \in MonitorIds :
             pc[m] = "size_read" => pc'[m] \in {"size_read", "run"}]_vars
    /\ \A m \in MonitorIds :
          (pc[m] = "size_enter" /\ sized[m] = 0) ~> (sized[m] >= 1)
    /\ \A m \in MonitorIds : pc[m] \in {"size_enter", "size_read"} ~> pc[m] = "run"

\* size() has answered 0 while a consumer was suspended on not_empty.
C12_Witness ==
    \E m \in MonitorIds :
        /\ sized[m] >= 1
        /\ size_result[m] = 0
        /\ buffer = <<>>
        /\ not_empty # <<>>

\* Thread t is between acquiring the lock and releasing it: inside the with
\* block of put, take or size and not suspended in wait().
InCritical(t) ==
    pc[t] \in {"put_check", "put_notify", "put_exit",
               "take_check", "take_notify", "take_exit", "size_read"}

\* Thread t takes a step of its own.
Moves(t) == pc'[t] # pc[t]

\* C13: mutual exclusion.  At most one thread is inside a with block of the
\* buffer, and it is the thread the lock records as its holder; every step
\* that tests the length of the storage list (the loops of put and take, and
\* size), appends to it or pops from it is taken by the lock holder.
C13_MutualExclusion ==
    /\ [](\A t, u \in ThreadIds : (InCritical(t) /\ InCritical(u)) => t = u)
    /\ [](\A t \in ThreadIds : InCritical(t) => lock = t)
    /\ [][\A t \in ThreadIds :
             (Moves(t) /\ pc[t] \in {"put_check", "take_check", "size_read"})
                => lock = t]_vars
    /\ [][buffer' # buffer =>
             \E t \in ThreadIds : lock = t /\ InCritical(t) /\ Moves(t)]_vars

\* A producer holds the lock and is about to append while the consumer and
\* the size() caller both stand at the entry of their with blocks.
C13_Witness ==
    /\ pc["P1"] = "put_check"
    /\ lock = "P1"
    /\ pc["C1"] = "take_enter"
    /\ pc["M1"] = "size_enter"
    /\ Len(buffer) >= 1

\* The position of x in the sequence s (x occurs in s).
PosIn(s, x) == CHOOSE i \in 1..Len(s) : s[i] = x

\* How many consumers hold a popped item they have not appended yet.
NumInHand == Cardinality({c \in ConsumerIds : InHand(c)})

\* C14: a Consumer calls take item_count times and appends each value take
\* returned to its destination, in the order returned.  In every state
\* destination has one element per completed iteration and never more than
\* item_count; a consumer that has finished has exactly item_count; every
\* value take has popped is in some destination or in a consumer's hand; and
\* each destination lists its values in the order they were popped.
C14_ConsumerTakesItemCount ==
    /\ \A c \in ConsumerIds :
          /\ Len(destination[c]) = taken[c]
          /\ Len(destination[c]) <= item_count[c]
          /\ pc[c] = "done" => Len(destination[c]) = item_count[c]
          /\ \A i \in 1..Len(destination[c]) :
                \E k \in 1..Len(takeLog) : takeLog[k] = destination[c][i]
          /\ \A i, j \in 1..Len(destination[c]) :
                i < j => PosIn(takeLog, destination[c][i])
                            < PosIn(takeLog, destination[c][j])
    /\ Len(takeLog) =
          Len(destination["C1"]) + Len(destination["C2"]) + NumInHand

\* One consumer has finished its two iterations with both values appended
\* while a third item of the run is still to be consumed by nobody.
C14_Witness ==
    \E c \in ConsumerIds :
        /\ pc[c] = "done"
        /\ item_count[c] = 2
        /\ Len(destination[c]) = 2
        /\ Len(putLog) = 3

\* The producer's run() has ended in its except clause.
ProducerFailed == pc["P1"] = "failed"

\* The producer has terminated, the buffer is empty and the consumer is
\* suspended on not_empty with nobody left to notify it.
ConsumerStranded ==
    /\ ProducerFailed
    /\ pc["C1"] = "take_wait"
    /\ buffer = <<>>
    /\ not_empty = <<"C1">>
    /\ lock = NoThread

\* C15: a Producer that stops after putting k < len(source) items leaves the
\* Consumer, which expects len(source) items, blocked for good.  From the
\* failure on the consumer never completes; under fair scheduling it
\* consumes the k items and ends up suspended in take on the empty buffer;
\* and once it is there no step ever changes that.
C15_ConsumerBlocksForever ==
    /\ [](ProducerFailed =>
             /\ idx["P1"] < Len(source["P1"])
             /\ item_count["C1"] = Len(source["P1"])
             /\ pc["C1"] \notin {"done", "failed"}
             /\ main_pc # "done")
    /\ [](ConsumerStranded => destination["C1"] = SubSeq(source["P1"], 1, idx["P1"]))
    /\ [][ConsumerStranded => ConsumerStranded']_vars
    /\ ProducerFailed ~> ConsumerStranded
    /\ ProducerFailed ~> [](ConsumerStranded)

\* The producer has failed after at least one put, and the consumer has
\* consumed what was put and waits.
C15_Witness ==
    /\ ConsumerStranded
    /\ idx["P1"] >= 1
    /\ Len(destination["C1"]) = idx["P1"]
    /\ Len(source["P1"]) > idx["P1"]

\* The queue-backed run got the capacity and the source of the SharedBuffer
\* run.
SameInput == maxsize = capArg /\ q_source = source["P1"]

\* C16: ProducerConsumerQueue is interchangeable with SharedBuffer.  Each run
\* with a capacity C >= 1, a source S and item_count = len(S): neither ever
\* buffers more than its capacity, both runs terminate under fair
\* scheduling, each ends with its destination equal to its source, and when
\* the two were given the same capacity and the same source the destination
\* the queue-backed run ends with is the one the SharedBuffer run ended with.
C16_QueueInterchangeable ==
    /\ [](built => Len(buffer) <= capArg)
    /\ [](Len(queue) <= maxsize)
    /\ [](demo_pc = "done" =>
             /\ BothFinished
             /\ destination["C1"] = source["P1"]
             /\ q_destination = q_source
             /\ (SameInput => q_destination = destination["C1"]))
    /\ <>(main_pc = "done" /\ demo_pc = "done")

\* Both runs are over on the same source of two distinct items and the same
\* capacity 1, smaller than the source.
C16_Witness ==
    /\ main_pc = "done"
    /\ demo_pc = "done"
    /\ SameInput
    /\ Len(source["P1"]) > capArg
    /\ \E i, j \in 1..Len(source["P1"]) : source["P1"][i] # source["P1"][j]
    /\ q_destination = destination["C1"]
    /\ unfinished_tasks = 0

\* C17: capacity is fixed for the buffer's lifetime.  No step of a put, take
\* or size call, whether the call goes through or is suspended, changes
\* capacity: it stays the value the constructor was given.
C17_CapacityFixed ==
    /\ [][capacity' = capacity]_vars
    /\ [](capacity = capArg)

\* Calls of all three kinds have been made, one of them is suspended on a
\* full buffer, and capacity is what the constructor stored.
C17_Witness ==
    /\ pc["P1"] = "put_wait"
    /\ Len(takeLog) >= 1
    /\ sized["M1"] >= 1
    /\ Len(buffer) = capacity
    /\ capacity = capArg

\* The sum of what the function Value gives over the records of sales_data
\* to which the function Key gives k.
TotalFor(k, Key, Value) ==
    LET sum[i \in 0..Len(sales_data)] ==
            IF i = 0 THEN 0
            ELSE sum[i - 1] + (IF Key[sales_data[i]] = k
                               THEN Value[sales_data[i]] ELSE 0)
    IN  sum[Len(sales_data)]

\* The keys Key gives over the records of sales_data.
KeysOf(Key) == {Key[sales_data[i]] : i \in 1..Len(sales_data)}

\* res is a correct top-n answer for the grouping by Key and the totals of
\* Value: at most n pairs, one per key and no key twice, each with the sum
\* over that key's records, in non-increasing order of total, as many as n
\* and the number of keys allow, and no key left out whose total is
\* strictly greater than a returned one.
IsTopN(res, n, Key, Value) ==
    /\ Len(res) <= n
    /\ Len(res) = (IF n < Cardinality(KeysOf(Key))
                   THEN n ELSE Cardinality(KeysOf(Key)))
    /\ \A i \in 1..Len(res) :
          /\ res[i][1] \in KeysOf(Key)
          /\ res[i][2] = TotalFor(res[i][1], Key, Value)
    /\ \A i, j \in 1..Len(res) : i < j =>
          /\ res[i][1] # res[j][1]
          /\ res[i][2] >= res[j][2]
    /\ \A k \in KeysOf(Key) :
          (\A i \in 1..Len(res) : res[i][1] # k) =>
              \A i \in 1..Len(res) : TotalFor(k, Key, Value) <= res[i][2]

\* C18: for every dataset and every n >= 0, get_top_customers,
\* get_top_products_by_quantity and get_top_products_by_revenue return at
\* most n (key, total) pairs, each total the sum over the records with that
\* key, in non-increasing order of total, and no omitted key has a total
\* strictly greater than a returned one.
C18_TopNQueries ==
    /\ (query[1] = "get_top_customers" /\ query[2] >= 0) =>
          IsTopN(result, query[2], CustomerNameOf, TotalPriceOf)
    /\ (query[1] = "get_top_products_by_quantity" /\ query[2] >= 0) =>
          IsTopN(result, query[2], ProductNameOf, QuantityOf)
    /\ (query[1] = "get_top_products_by_revenue" /\ query[2] >= 0) =>
          IsTopN(result, query[2], ProductNameOf, TotalPriceOf)

\* The top product by quantity was asked for of two records of different
\* products, and the one returned is not the one with the larger revenue.
C18_Witness ==
    /\ query = <<"get_top_products_by_quantity", 1>>
    /\ Len(sales_data) = 2
    /\ Len(result) = 1
    /\ \E i \in 1..2 :
          /\ sales_data[i].product_name # result[1][1]
          /\ sales_data[i].total_price > sales_data[3 - i].total_price
          /\ sales_data[i].quantity < sales_data[3 - i].quantity

\* C19: get_orders_above_threshold(t) returns exactly the records whose
\* total_price is strictly greater than t, each as many times as it is in
\* sales_data, sorted in non-increasing order of total_price, and leaves
\* sales_data as it was.
C19_OrdersAboveThreshold ==
    /\ [](query[1] = "get_orders_above_threshold" =>
             /\ \A r \in SalesRecords :
                   Count(result, r) =
                       (IF r.total_price > query[2]
                        THEN Count(sales_data, r) ELSE 0)
             /\ \A i \in 1..Len(result) : result[i] \in SalesRecords
             /\ \A i, j \in 1..Len(result) :
                   i < j => result[i].total_price >= result[j].total_price)
    /\ [][query'[1] = "get_orders_above_threshold" =>
             sales_data' = sales_data]_vars

\* A threshold that one record of the list equals and another exceeds: the
\* answer holds the second and not the first.
C19_Witness ==
    /\ query[1] = "get_orders_above_threshold"
    /\ Len(sales_data) = 2
    /\ sales_data[1].total_price = query[2]
    /\ sales_data[2].total_price > query[2]
    /\ result = <<sales_data[2]>>

\* The sum of the counts of a list of (method, count) pairs.
SumOfCounts(items) ==
    LET sum[i \in 0..Len(items)] ==
            IF i = 0 THEN 0 ELSE sum[i - 1] + items[i][2]
    IN  sum[Len(items)]

\* C20: the order counts per payment method add up to the number of loaded
\* records, and the payment method of every record is a key of the result
\* (each key once, with the number of records that have it).
C20_PaymentCountsAddUp ==
    query[1] = "get_order_count_by_payment_method" =>
        /\ SumOfCounts(result) = Len(sales_data)
        /\ \A i \in 1..Len(sales_data) :
              \E j \in 1..Len(result) :
                  result[j][1] = sales_data[i].payment_method
        /\ \A j, k \in 1..Len(result) : result[j][1] = result[k][1] => j = k
        /\ \A j \in 1..Len(result) :
              result[j][2] = Cardinality({i \in 1..Len(sales_data) :
                                 sales_data[i].payment_method = result[j][1]})

\* Two records paid the same way: one key, counted twice.
C20_Witness ==
    /\ query[1] = "get_order_count_by_payment_method"
    /\ Len(sales_data) = 2
    /\ sales_data[1].payment_method = sales_data[2].payment_method
    /\ sales_data[1] # sales_data[2]
    /\ result = <<<<sales_data[1].payment_method, 2>>>>

\* C21: on an analyzer with no records calculate_total_revenue returns 0,
\* calculate_average_order_value returns 0 without dividing by zero, and
\* get_distinct_customers_count returns 0.  (On any list the average is the
\* total over a non-zero count.)
C21_EmptyDataset ==
    /\ query[1] = "calculate_average_order_value" => result[2] # 0
    /\ Len(sales_data) = 0 =>
          /\ query[1] = "calculate_total_revenue" => result = <<0>>
          /\ query[1] = "calculate_average_order_value" => result[1] = 0
          /\ query[1] = "get_distinct_customers_count" => result = <<0>>

\* The average has been asked of an analyzer with no records.
C21_Witness ==
    /\ Len(sales_data) = 0
    /\ query[1] = "calculate_average_order_value"
    /\ result = <<0, 1>>

\* Thread t has been started and its run() is not over.
Unfinished(t) == pc[t] \notin {"new", "done", "failed"}

\* Thread t is suspended in wait() and has not been notified.
Suspended(t) == pc[t] \in {"put_wait", "take_wait"}

\* C22: waking one waiter per put and per take is enough.  With two
\* producers and two consumers, capacity >= 1 and as many puts as takes in
\* total, no reachable state has unfinished threads that are all suspended
\* in wait, and under fair scheduling all four threads finish.
C22_SingleWakeupSuffices ==
    /\ []((\E t \in ThreadIds : Unfinished(t)) =>
             (\E t \in ThreadIds : Unfinished(t) /\ ~Suspended(t)))
    /\ <>[](\A t \in Range(tasks) : pc[t] = "done")

\* Both consumers are suspended on the empty buffer at once while puts are
\* still to come: each needs a wake-up of its own.
C22_Witness ==
    /\ pc["C1"] = "take_wait"
    /\ pc["C2"] = "take_wait"
    /\ Len(not_empty) = 2
    /\ buffer = <<>>
    /\ Len(source["P1"]) = 1
    /\ Len(source["P2"]) = 1

\* The step on which put or take of thread t calls notify().
PutNotifies(t) == pc[t] = "put_notify" /\ pc'[t] # pc[t]
TakeNotifies(t) == pc[t] = "take_notify" /\ pc'[t] # pc[t]

\* Between this state and the next, the threads that stopped being waiters
\* of not_empty, and of not_full.
LeftNotEmpty == {t \in ThreadIds : (\E i \in 1..Len(not_empty) : not_empty[i] = t)
                                   /\ (\A i \in 1..Len(not_empty') : not_empty'[i] # t)}
LeftNotFull == {t \in ThreadIds : (\E i \in 1..Len(not_full) : not_full[i] = t)
                                  /\ (\A i \in 1..Len(not_full') : not_full'[i] # t)}

\* C23: signal routing.  The notify of a put comes after its append, with
\* the lock held, and wakes at most one waiter of not_empty (the oldest one,
\* and one whenever there is one) and none of not_full; the notify of a take
\* comes after its pop, with the lock held, and wakes at most one waiter of
\* not_full and none of not_empty; no other step, a put or take that blocks
\* included, takes a thread out of either condition.
C23_SignalRouting ==
    /\ [](\A t \in ThreadIds :
             /\ pc[t] = "put_notify" =>
                   lock = t /\ putLog # <<>> /\ buffer # <<>>
             /\ pc[t] = "take_notify" => lock = t /\ takeLog # <<>>)
    /\ [][\A t \in ThreadIds :
             /\ PutNotifies(t) =>
                   /\ LeftNotFull = {}
                   /\ Cardinality(LeftNotEmpty) <= 1
                   /\ not_empty # <<>> => LeftNotEmpty = {not_empty[1]}
                   /\ \A u \in LeftNotEmpty : pc'[u] = "take_woken"
             /\ TakeNotifies(t) =>
                   /\ LeftNotEmpty = {}
                   /\ Cardinality(LeftNotFull) <= 1
                   /\ not_full # <<>> => LeftNotFull = {not_full[1]}
                   /\ \A u \in LeftNotFull : pc'[u] = "put_woken"]_vars
    /\ [][(\A t \in ThreadIds : ~PutNotifies(t) /\ ~TakeNotifies(t)) =>
             (LeftNotEmpty = {} /\ LeftNotFull = {})]_vars
    /\ [](\A t \in ThreadIds :
             /\ pc[t] = "take_woken" => \A i \in 1..Len(not_empty) : not_empty[i] # t
             /\ pc[t] = "put_woken" => \A i \in 1..Len(not_full) : not_full[i] # t)

\* A put has just notified with two consumers waiting: the older one is
\* woken and the other one still waits.
C23_Witness ==
    /\ pc["P1"] = "put_exit"
    /\ Len(not_empty) = 1
    /\ \E c \in ConsumerIds : pc[c] = "take_woken"
    /\ \E c \in ConsumerIds : pc[c] = "take_wait"

\* C24: the wait predicate is tested again after every wake, notified or
\* not.  A thread that wait() has released goes back to the while test with
\* the lock and touches nothing on the way; a put that finds
\* len(buffer) >= capacity at the test appends nothing and waits (again),
\* a take that finds the buffer empty removes nothing and waits (again).
\* So even when waiters may wake at any time the buffer never holds more
\* than capacity items and items leave it in the order they entered.
C24_RecheckAfterWake ==
    /\ [][\A t \in ThreadIds :
             /\ (pc[t] \in {"put_woken", "take_woken"} /\ pc'[t] # pc[t]) =>
                   /\ pc'[t] = (IF pc[t] = "put_woken"
                                THEN "put_check" ELSE "take_check")
                   /\ lock' = t
                   /\ UNCHANGED <<buffer, putLog, takeLog>>
             /\ (pc[t] = "put_check" /\ Len(buffer) >= capacity
                   /\ pc'[t] # pc[t]) =>
                   /\ pc'[t] = "put_wait"
                   /\ UNCHANGED <<buffer, putLog>>
             /\ (pc[t] = "take_check" /\ Len(buffer) = 0 /\ pc'[t] # pc[t]) =>
                   /\ pc'[t] = "take_wait"
                   /\ UNCHANGED <<buffer, takeLog>>]_vars
    /\ [](Len(buffer) <= capacity)
    /\ [](/\ Len(takeLog) <= Len(putLog)
          /\ takeLog = SubSeq(putLog, 1, Len(takeLog))
          /\ buffer = SubSeq(putLog, Len(takeLog) + 1, Len(putLog)))

\* A producer woken without any take since it began to wait is back at the
\* test, with the lock, on a buffer that is still full.
C24_Witness ==
    \E p \in ProducerIds :
        /\ pc[p] = "put_check"
        /\ lock = p
        /\ fullStamp[p] = Len(takeLog)
        /\ Len(buffer) >= capacity

\* The occupancy class of a buffer of n items: EMPTY, PARTIAL or FULL.
Occupancy(n) ==
    IF n = 0 THEN "EMPTY" ELSE IF n >= capacity THEN "FULL" ELSE "PARTIAL"

\* C25: the occupancy state machine.  The step that completes a put (the
\* append) is taken with fewer than capacity items, from EMPTY or PARTIAL,
\* adds exactly one item and ends in PARTIAL or FULL; the step that
\* completes a take (the pop) is taken with at least one item, from PARTIAL
\* or FULL, removes exactly one and ends in PARTIAL or EMPTY; no other step
\* changes the number of items (nor the items).
C25_OccupancyStateMachine ==
    /\ [][Len(putLog') > Len(putLog) =>
             /\ Len(putLog') = Len(putLog) + 1
             /\ takeLog' = takeLog
             /\ Len(buffer) < capacity
             /\ Occupancy(Len(buffer)) \in {"EMPTY", "PARTIAL"}
             /\ Len(buffer') = Len(buffer) + 1
             /\ Occupancy(Len(buffer')) \in {"PARTIAL", "FULL"}
             /\ \E p \in ProducerIds : pc[p] = "put_check" /\ pc'[p] = "put_notify"]_vars
    /\ [][Len(takeLog') > Len(takeLog) =>
             /\ Len(takeLog') = Len(takeLog) + 1
             /\ putLog' = putLog
             /\ Len(buffer) >= 1
             /\ Occupancy(Len(buffer)) \in {"PARTIAL", "FULL"}
             /\ Len(buffer') = Len(buffer) - 1
             /\ Occupancy(Len(buffer')) \in {"PARTIAL", "EMPTY"}
             /\ \E c \in ConsumerIds : pc[c] = "take_check" /\ pc'[c] = "take_notify"]_vars
    /\ [][buffer' # buffer =>
             (Len(putLog') > Len(putLog) \/ Len(takeLog') > Len(takeLog))]_vars
    /\ [][\A p \in ProducerIds :
             (pc[p] = "put_exit" /\ pc'[p] = "run") =>
                 /\ idx'[p] = idx[p] + 1
                 /\ \E k \in 1..Len(putLog) : putLog[k] = source[p][idx[p] + 1]]_vars
    /\ [](Len(buffer) = Len(putLog) - Len(takeLog))

\* With capacity 2, three appends and one pop have left the buffer FULL:
\* puts from EMPTY and from PARTIAL and a take have all happened.
C25_Witness ==
    /\ capacity = 2
    /\ Len(putLog) = 3
    /\ Len(takeLog) = 1
    /\ Len(buffer) = 2
    /\ Occupancy(Len(buffer)) = "FULL"

\* Thread t is inside wait(): suspended, or notified and not yet back in
\* possession of the lock.
InWait(t) == pc[t] \in {"put_wait", "take_wait", "put_woken", "take_woken"}

\* C26: a thread suspended in wait does not hold the buffer lock.  The step
\* that suspends it releases the lock; as long as it is inside wait() the
\* lock is free or held by another thread, which runs put, take or size
\* meanwhile; and it is at its while test again only as the lock holder.
C26_WaiterHoldsNoLock ==
    /\ [](\A t \in ThreadIds : InWait(t) => lock # t)
    /\ [][\A t \in ThreadIds :
             (~InWait(t) /\ InWait(t)') => (lock = t /\ lock' = NoThread)]_vars
    /\ [][\A t \in ThreadIds :
             (InWait(t) /\ ~InWait(t)') =>
                 /\ lock = NoThread
                 /\ lock' = t
                 /\ pc'[t] \in {"put_check", "take_check"}]_vars

\* While the producer is suspended on the full buffer a size() caller holds
\* the lock and the consumer stands inside take.
C26_Witness ==
    /\ pc["P1"] = "put_wait"
    /\ lock = "M1"
    /\ pc["M1"] = "size_read"
    /\ pc["C1"] = "take_enter"
    /\ Len(buffer) = capacity

\* The smaller of two numbers.
Min(a, b) == IF a <= b THEN a ELSE b

\* C27: the producer puts the elements of its source in source order, one
\* put per element: the appended items are always a prefix of the source,
\* at most one ahead of the number of returned puts.  It finishes exactly when
\* the put of the last element has returned; when it is finished the number
\* of completed puts is len(S) whatever the consumer has taken, and at most
\* min(capacity, len(S)) items are still in the buffer.
C27_ProducerCompletion ==
    /\ [](/\ IsPrefix(putLog, source["P1"])
          /\ idx["P1"] <= Len(putLog)
          /\ Len(putLog) <= idx["P1"] + 1)
    /\ [](pc["P1"] = "done" =>
             /\ idx["P1"] = Len(source["P1"])
             /\ putLog = source["P1"]
             /\ Len(buffer) = Len(source["P1"]) - Len(takeLog)
             /\ Len(buffer) <= Min(capacity, Len(source["P1"])))
    /\ [][(pc["P1"] # "done" /\ pc'["P1"] = "done") =>
             (pc["P1"] = "run" /\ idx["P1"] = Len(source["P1"]))]_vars
    /\ [][(pc["P1"] = "run" /\ idx["P1"] = Len(source["P1"])
              /\ pc'["P1"] # pc["P1"]) => pc'["P1"] = "done"]_vars
    /\ [][(pc["P1"] = "run" /\ idx["P1"] < Len(source["P1"])
              /\ pc'["P1"] # pc["P1"]) => pc'["P1"] = "put_enter"]_vars

\* The producer has finished a source of three items on a buffer of two
\* places while the consumer, asked for one item only, has taken one: two
\* items are left in the buffer.
C27_Witness ==
    /\ pc["P1"] = "done"
    /\ Len(source["P1"]) = 3
    /\ capacity = 2
    /\ item_count["C1"] = 1
    /\ pc["C1"] = "done"
    /\ Len(takeLog) = 1
    /\ Len(buffer) = 2

\* The item consumer c has popped and not yet appended, as a sequence of
\* length 0 or 1.
HandOf(c) == IF InHand(c) THEN <<item[c]>> ELSE <<>>

\* What has been delivered and what is still on its way, oldest first.
Pipeline == destination["C1"] \o HandOf("C1") \o buffer

\* The elements of the source whose put has returned.
Accepted == SubSeq(source["P1"], 1, idx["P1"])

\* C28: a Producer that fails after exactly k successful puts performs no
\* further put; the k accepted items remain deliverable (each is in the
\* buffer, in the consumer's hand or in destination, in source order); under
\* fair scheduling destination becomes the first k elements of S and stays
\* so; and it never holds anything beyond them.
C28_FailedProducerDelivers ==
    /\ [][ProducerFailed =>
             /\ ProducerFailed'
             /\ idx' = idx
             /\ putLog' = putLog]_vars
    /\ [](ProducerFailed =>
             /\ putLog = Accepted
             /\ Pipeline = Accepted
             /\ IsPrefix(destination["C1"], Accepted))
    /\ ProducerFailed ~> (destination["C1"] = Accepted)
    /\ ProducerFailed ~> [](destination["C1"] = Accepted)

\* The producer has failed after two of three puts while both accepted
\* items are still in the buffer, none delivered yet.
C28_Witness ==
    /\ ProducerFailed
    /\ idx["P1"] = 2
    /\ Len(source["P1"]) = 3
    /\ Len(buffer) = 2
    /\ destination["C1"] = <<>>

\* C29: with one producer over S and one consumer, in every state
\* destination, followed by the item the consumer has taken and not yet
\* appended (if any), followed by the buffer content head first, is the
\* prefix of S made of the items whose append has happened; hence destination
\* is always a prefix of S.
C29_PipelineIsPrefixOfSource ==
    /\ Pipeline = putLog
    /\ Len(putLog) \in {idx["P1"], idx["P1"] + 1}
    /\ putLog = SubSeq(source["P1"], 1, Len(putLog))
    /\ IsPrefix(destination["C1"], source["P1"])

\* All three parts are non-empty at once: one item delivered, one in the
\* consumer's hand, one in the buffer, and they are the source.
C29_Witness ==
    /\ Len(destination["C1"]) = 1
    /\ pc["C1"] = "append"
    /\ Len(buffer) = 1
    /\ Pipeline = source["P1"]
    /\ source["P1"][1] # source["P1"][2]

\* A buffer exists whose capacity is zero or negative.
NonPositive == built /\ capacity <= 0

\* C30: SharedBuffer(capacity) with capacity <= 0 is accepted as it is, and
\* the buffer then stays empty for ever: no put ever appends or returns, no
\* take ever pops, a producer with a non-empty source and a consumer with
\* item_count >= 1 never finish and main never gets past its joins; under
\* fair scheduling every put call ends up suspended on not_full and every
\* take call on not_empty, for good.
C30_NonPositiveCapacityStalls ==
    /\ [][(main_pc = "construct" /\ main_pc' # "construct") =>
             (capacity' = capArg /\ main_pc' = "start")]_vars
    /\ [](NonPositive =>
             /\ buffer = <<>>
             /\ putLog = <<>>
             /\ takeLog = <<>>
             /\ idx["P1"] = 0
             /\ taken["C1"] = 0
             /\ pc["P1"] \notin {"put_notify", "put_exit", "failed"}
             /\ pc["C1"] \notin {"take_notify", "take_exit", "append"}
             /\ (Len(source["P1"]) >= 1 => pc["P1"] # "done")
             /\ (item_count["C1"] >= 1 => pc["C1"] # "done")
             /\ (Len(source["P1"]) >= 1 => main_pc # "done"))
    /\ (NonPositive /\ pc["P1"] = "put_enter") ~> [](pc["P1"] = "put_wait")
    /\ (NonPositive /\ pc["C1"] = "take_enter") ~> [](pc["C1"] = "take_wait")

\* On a buffer of capacity -1 the producer is suspended in its first put and
\* the consumer in its first take, the lock is free and main waits in join.
C30_Witness ==
    /\ NonPositive
    /\ capacity = 0 - 1
    /\ pc["P1"] = "put_wait"
    /\ pc["C1"] = "take_wait"
    /\ not_full = <<"P1">>
    /\ not_empty = <<"C1">>
    /\ lock = NoThread
    /\ main_pc = "join"

\* The consumer asks for fewer items than the source holds.
ConsumerShort == item_count["C1"] < Len(source["P1"])

\* What the consumer leaves behind fits into the buffer.
RestFits == Len(source["P1"]) <= item_count["C1"] + capacity

\* The producer is suspended on not_full with the buffer full, the consumer
\* has finished, and the lock is free.
ProducerStranded ==
    /\ pc["P1"] = "put_wait"
    /\ pc["C1"] = "done"
    /\ Len(buffer) = capacity
    /\ not_full = <<"P1">>

\* C31: when item_count < len(S), under fair scheduling the producer
\* finishes if and only if len(S) <= item_count + capacity.  If it fits the
\* producer finishes; if it does not, the producer never finishes and ends
\* up suspended on not_full on the full buffer after the consumer has
\* finished, and stays there.
C31_ProducerFinishesIffRestFits ==
    /\ (ConsumerShort /\ RestFits) ~> (pc["P1"] = "done")
    /\ []((ConsumerShort /\ ~RestFits) => pc["P1"] # "done")
    /\ (ConsumerShort /\ ~RestFits) ~> [](ProducerStranded)
    /\ [](ProducerStranded =>
             /\ taken["C1"] = item_count["C1"]
             /\ idx["P1"] = item_count["C1"] + capacity
             /\ idx["P1"] < Len(source["P1"]))

\* The consumer has taken its one item and finished; the producer, with a
\* third element in hand, is suspended on the buffer of capacity 1 that
\* holds the second.
C31_Witness ==
    /\ ProducerStranded
    /\ capacity = 1
    /\ item_count["C1"] = 1
    /\ Len(source["P1"]) = 3
    /\ Len(destination["C1"]) = 1
    /\ lock = NoThread

\* The whole source fits into the buffer.
SourceFits == Len(source["P1"]) <= capacity

\* C32: a single producer whose source has at most capacity elements, on an
\* initially empty buffer of capacity >= 1, never waits on not_full: it is
\* never suspended, and whenever it stands at the while test of put the
\* buffer has room.  Under fair scheduling it finishes; and it does so with
\* no take at all when the consumer is asked for no item, the buffer then
\* holding the whole source.
C32_FittingSourceNeverWaits ==
    /\ [](SourceFits =>
             /\ pc["P1"] \notin {"put_wait", "put_woken"}
             /\ not_full = <<>>
             /\ fullStamp["P1"] = NoStamp
             /\ (pc["P1"] = "put_check" => Len(buffer) < capacity))
    /\ SourceFits ~> (pc["P1"] = "done")
    /\ (SourceFits /\ item_count["C1"] = 0) ~>
           [](pc["P1"] = "done" /\ takeLog = <<>> /\ buffer = source["P1"])

\* The producer has finished a source of two items on a buffer of capacity
\* 2 and no take has happened: both items are in the buffer.
C32_Witness ==
    /\ pc["P1"] = "done"
    /\ capacity = 2
    /\ Len(source["P1"]) = 2
    /\ takeLog = <<>>
    /\ buffer = source["P1"]
    /\ item_count["C1"] = 0

\* Thread t is executing put, take or size: it has called the operation and
\* the operation has not returned.
InOperation(t) ==
    pc[t] \in {"put_enter", "put_check", "put_wait", "put_woken",
               "put_notify", "put_exit",
               "take_enter", "take_check", "take_wait", "take_woken",
               "take_notify", "take_exit",
               "size_enter", "size_read"}

\* Every started task has left its run().
AllTasksFinished == \A t \in Range(tasks) : pc[t] \in {"done", "failed"}

\* C33: the lock is released on every exit from put, take and size, the
\* return from inside take's with block included.  A thread that is not
\* executing one of the three operations never holds the lock; the step by
\* which an operation returns is taken by the lock holder and leaves the lock
\* free; and once all tasks have finished the lock is free.
C33_LockReleasedOnExit ==
    /\ [](\A t \in ThreadIds : ~InOperation(t) => lock # t)
    /\ [][\A t \in ThreadIds :
             (InOperation(t) /\ ~InOperation(t)') =>
                 (lock = t /\ lock' = NoThread)]_vars
    /\ [](AllTasksFinished => lock = NoThread)

\* The three tasks have finished after at least one put, one take and one
\* size() call have returned, and the lock is free.
C33_Witness ==
    /\ AllTasksFinished
    /\ lock = NoThread
    /\ idx["P1"] >= 1
    /\ Len(destination["C1"]) >= 1
    /\ sized["M1"] >= 1

=============================================================================
